---- MODULE Spec2Model ----
(***************************************************************************)
(* HttpServer of hub-robot-http-utils: the connection pool driven by       *)
(* tick(), the per-connection cycle handleConnection() (read, parse,       *)
(* CORS preflight, middleware, routing, response composition) and the      *)
(* registration/configuration surface.                                     *)
(*                                                                         *)
(* Bytes on the wire are run-length encoded: a byte string is a sequence   *)
(* of runs [c |-> character, n |-> count].  Request heads are spelled out  *)
(* character by character (n = 1); message bodies are runs of the filler   *)
(* byte "x", so that the real sizes (2048, 3000, 8192) are kept.           *)
(***************************************************************************)
EXTENDS Integers, Sequences, FiniteSets, TLC

\* ------------------------------------------------------------------------
\* Program constants (class HttpServer)
\* ------------------------------------------------------------------------
DEFAULT_BUFFER_SIZE == 2048
MAX_BUFFER_SIZE == 8192
DEFAULT_MAX_CONNECTIONS == 4
WRITE_TIMEOUT_MS == 1000
WRITE_CHUNK_SIZE == 512
MAX_HEADERS == 16
MIN_FREE_RAM == 4096
TICK_BUDGET_MS == 256
CLIENT_INACTIVITY_TIMEOUT_MS == 300000

\* ------------------------------------------------------------------------
\* Bounds of the model
\* ------------------------------------------------------------------------
\* number of registration/configuration calls made before begin()
MaxSetupCalls == 2
\* number of client sockets that ever connect
MaxConns == 1
\* number of times the clock advances
MaxElapses == 1
\* clients of the pool specification
MaxPoolConns == 2

\* ------------------------------------------------------------------------
\* Byte strings
\* ------------------------------------------------------------------------
FILL == "x"
NUL == "0x00"

\* B(<<"G","E","T">>): the byte string of a character sequence
B(chars) == [i \in 1..Len(chars) |-> [c |-> chars[i], n |-> 1]]

\* n filler bytes
Fill(n) == IF n > 0 THEN << [c |-> FILL, n |-> n] >> ELSE << >>

RECURSIVE BLen(_)
BLen(s) == IF s = << >> THEN 0 ELSE s[1].n + BLen(Tail(s))

\* concatenation; adjacent filler runs are merged so that equal byte
\* strings are equal values
Cat(s, t) ==
    IF s = << >> THEN t
    ELSE IF t = << >> THEN s
    ELSE IF s[Len(s)].c = FILL /\ t[1].c = FILL
         THEN SubSeq(s, 1, Len(s) - 1)
                \o << [c |-> FILL, n |-> s[Len(s)].n + t[1].n] >>
                \o Tail(t)
         ELSE s \o t

\* the first k bytes of s
RECURSIVE Take(_, _)
Take(s, k) ==
    IF k <= 0 \/ s = << >> THEN << >>
    ELSE IF s[1].n <= k THEN << s[1] >> \o Take(Tail(s), k - s[1].n)
    ELSE << [c |-> s[1].c, n |-> k] >>

\* s without its first k bytes
RECURSIVE Drop(_, _)
Drop(s, k) ==
    IF k <= 0 \/ s = << >> THEN s
    ELSE IF s[1].n <= k THEN Drop(Tail(s), k - s[1].n)
    ELSE << [c |-> s[1].c, n |-> s[1].n - k] >> \o Tail(s)

Min(a, b) == IF a < b THEN a ELSE b

\* ------------------------------------------------------------------------
\* Characters
\* ------------------------------------------------------------------------
UpperCase == {"A","C","D","E","G","H","I","L","N","O","P","S","T"}
LowerCase == {"a","b","c","d","e","g","h","i","l","n","o","p","s","t","u","z"}
Digits == {"0","1","2","3","4","5","6","7","8","9"}

\* tchar of RFC 7230, restricted to the characters in use
TokenChars == UpperCase \cup LowerCase \cup Digits \cup {"-", FILL}
\* printable ASCII that is not a token character
OtherPrintable == {"/", ":", "?", "=", "&", " ", "."}

IsTokenChar(c) == c \in TokenChars
IsPrintable(c) == c \in TokenChars \cup OtherPrintable

ToLower(c) ==
    CASE c = "A" -> "a" [] c = "C" -> "c" [] c = "D" -> "d" [] c = "E" -> "e"
      [] c = "G" -> "g" [] c = "H" -> "h" [] c = "I" -> "i" [] c = "L" -> "l"
      [] c = "N" -> "n" [] c = "O" -> "o" [] c = "P" -> "p" [] c = "S" -> "s"
      [] c = "T" -> "t" [] OTHER -> c

\* String::toLowerCase on a byte string
toLowerCase(s) == [i \in 1..Len(s) |-> [c |-> ToLower(s[i].c), n |-> s[i].n]]

\* String::equalsIgnoreCase
equalsIgnoreCase(s, t) == toLowerCase(s) = toLowerCase(t)

\* ------------------------------------------------------------------------
\* picohttpparser: phr_parse_request (bundled third-party parser).
\* Results: > 0 the number of bytes of the request head, -1 malformed,
\* -2 incomplete.  method, path and headers hold what had been parsed when
\* the parser returned.
\* ------------------------------------------------------------------------
Eof(buf, i) == i > Len(buf)

\* st = 0: the delimiter is at index i; the token is buf[start..i-1]
RECURSIVE parse_token(_, _, _)
parse_token(buf, i, delim) ==
    IF Eof(buf, i) THEN [st |-> -2, i |-> i]
    ELSE IF buf[i].c = delim THEN [st |-> 0, i |-> i]
    ELSE IF ~IsTokenChar(buf[i].c) THEN [st |-> -1, i |-> i]
    ELSE parse_token(buf, i + 1, delim)

\* do { ++buf; CHECK_EOF(); } while (*buf == ' ');  entered with i already
\* advanced
RECURSIVE skip_spaces(_, _)
skip_spaces(buf, i) ==
    IF Eof(buf, i) THEN [st |-> -2, i |-> i]
    ELSE IF buf[i].c = " " THEN skip_spaces(buf, i + 1)
    ELSE [st |-> 0, i |-> i]

\* for (;; ++buf) { CHECK_EOF(); if (!(*buf == ' ' || *buf == '\t')) break; }
RECURSIVE skip_ws(_, _)
skip_ws(buf, i) ==
    IF Eof(buf, i) THEN [st |-> -2, i |-> i]
    ELSE IF buf[i].c \in {" ", "\t"} THEN skip_ws(buf, i + 1)
    ELSE [st |-> 0, i |-> i]

\* ADVANCE_TOKEN: up to the next space; control characters are malformed
RECURSIVE advance_token(_, _)
advance_token(buf, i) ==
    IF Eof(buf, i) THEN [st |-> -2, i |-> i]
    ELSE IF buf[i].c = " " THEN [st |-> 0, i |-> i]
    ELSE IF ~IsPrintable(buf[i].c) THEN [st |-> -1, i |-> i]
    ELSE advance_token(buf, i + 1)

\* EXPECT_CHAR
expect_char(buf, i, ch) ==
    IF Eof(buf, i) THEN -2 ELSE IF buf[i].c # ch THEN -1 ELSE 0

RECURSIVE expect_chars(_, _, _)
expect_chars(buf, i, chs) ==
    IF chs = << >> THEN 0
    ELSE IF Eof(buf, i) \/ buf[i].c # Head(chs) THEN -1
    ELSE expect_chars(buf, i + 1, Tail(chs))

\* "HTTP/1." and one digit; needs 9 bytes before it tries
parse_http_version(buf, i) ==
    IF BLen(SubSeq(buf, i, Len(buf))) < 9 THEN [st |-> -2, i |-> i]
    ELSE IF expect_chars(buf, i, <<"H", "T", "T", "P", "/", "1", ".">>) # 0
         THEN [st |-> -1, i |-> i]
    ELSE IF buf[i + 7].c \notin Digits THEN [st |-> -1, i |-> i]
    ELSE [st |-> 0, i |-> i + 8]

\* st = 0: the value is buf[start..end-1], the next line starts at next
RECURSIVE get_token_to_eol(_, _)
get_token_to_eol(buf, i) ==
    IF Eof(buf, i) THEN [st |-> -2, end |-> i, next |-> i]
    ELSE IF buf[i].c = "\r" THEN
        IF expect_char(buf, i + 1, "\n") # 0
        THEN [st |-> expect_char(buf, i + 1, "\n"), end |-> i, next |-> i]
        ELSE [st |-> 0, end |-> i, next |-> i + 2]
    ELSE IF buf[i].c = "\n" THEN [st |-> 0, end |-> i, next |-> i + 1]
    ELSE IF ~IsPrintable(buf[i].c) /\ buf[i].c # "\t"
         THEN [st |-> -1, end |-> i, next |-> i]
    ELSE get_token_to_eol(buf, i + 1)

\* trailing SPs and HTABs of a header value are removed
RECURSIVE rtrim(_)
rtrim(s) ==
    IF s # << >> /\ s[Len(s)].c \in {" ", "\t"}
    THEN rtrim(SubSeq(s, 1, Len(s) - 1)) ELSE s

RECURSIVE parse_headers(_, _, _, _)
parse_headers(buf, i, hs, max_headers) ==
    IF Eof(buf, i) THEN [st |-> -2, i |-> i, headers |-> hs]
    ELSE IF buf[i].c = "\r" THEN
        IF expect_char(buf, i + 1, "\n") # 0
        THEN [st |-> expect_char(buf, i + 1, "\n"), i |-> i, headers |-> hs]
        ELSE [st |-> 0, i |-> i + 2, headers |-> hs]
    ELSE IF buf[i].c = "\n" THEN [st |-> 0, i |-> i + 1, headers |-> hs]
    ELSE IF Len(hs) = max_headers THEN [st |-> -1, i |-> i, headers |-> hs]
    ELSE
      LET cont == Len(hs) # 0 /\ buf[i].c \in {" ", "\t"}
          nm == IF cont THEN [st |-> 0, i |-> i] ELSE parse_token(buf, i, ":")
          vs == IF cont THEN [st |-> 0, i |-> i] ELSE skip_ws(buf, nm.i + 1)
          v == get_token_to_eol(buf, vs.i)
      IN  IF nm.st # 0 THEN [st |-> nm.st, i |-> i, headers |-> hs]
          ELSE IF ~cont /\ nm.i = i THEN [st |-> -1, i |-> i, headers |-> hs]
          ELSE IF vs.st # 0 THEN [st |-> vs.st, i |-> i, headers |-> hs]
          ELSE IF v.st # 0 THEN [st |-> v.st, i |-> i, headers |-> hs]
          ELSE parse_headers(buf, v.next,
                   Append(hs, [name |-> IF cont THEN << >>
                                         ELSE SubSeq(buf, i, nm.i - 1),
                               value |-> rtrim(SubSeq(buf, vs.i, v.end - 1))]),
                   max_headers)

\* the fast check made when last_len # 0: is there a blank line at or after
\* last_len - 3 ?  Result 0 (yes), -1 or -2.
RECURSIVE is_complete_from(_, _, _)
is_complete_from(buf, i, ret_cnt) ==
    IF ret_cnt = 2 THEN 0
    ELSE IF Eof(buf, i) THEN -2
    ELSE IF buf[i].c = "\r" THEN
        IF expect_char(buf, i + 1, "\n") # 0 THEN expect_char(buf, i + 1, "\n")
        ELSE is_complete_from(buf, i + 2, ret_cnt + 1)
    ELSE IF buf[i].c = "\n" THEN is_complete_from(buf, i + 1, ret_cnt + 1)
    ELSE is_complete_from(buf, i + 1, 0)

is_complete(buf, last_len) ==
    is_complete_from(Drop(buf, IF last_len < 3 THEN 0 ELSE last_len - 3), 1, 0)

parse_request(buf, max_headers) ==
    LET none == [ret |-> -2, method |-> << >>, path |-> << >>, headers |-> << >>]
        \* skip first empty line
        i0 == IF Eof(buf, 1) THEN 1
              ELSE IF buf[1].c = "\r" THEN 2
              ELSE IF buf[1].c = "\n" THEN 2 ELSE 1
        e0 == IF Eof(buf, 1) THEN -2
              ELSE IF buf[1].c = "\r" THEN expect_char(buf, 2, "\n") ELSE 0
        i1 == IF ~Eof(buf, 1) /\ buf[1].c = "\r" THEN 3 ELSE i0
        m == parse_token(buf, i1, " ")
        withM == [none EXCEPT !.method = SubSeq(buf, i1, m.i - 1)]
        s1 == skip_spaces(buf, m.i + 1)
        p == advance_token(buf, s1.i)
        withP == [withM EXCEPT !.path = SubSeq(buf, s1.i, p.i - 1)]
        s2 == skip_spaces(buf, p.i + 1)
        ver == parse_http_version(buf, s2.i)
        eol == IF buf[ver.i].c = "\r" THEN expect_char(buf, ver.i + 1, "\n")
               ELSE IF buf[ver.i].c = "\n" THEN 0 ELSE -1
        hstart == IF buf[ver.i].c = "\r" THEN ver.i + 2 ELSE ver.i + 1
        h == parse_headers(buf, hstart, << >>, max_headers)
        withH == [withP EXCEPT !.headers = h.headers]
    IN  IF e0 # 0 THEN [none EXCEPT !.ret = e0]
        \* the byte after the buffer's last one is 0 (the buffer is
        \* zero-filled): not a token character
        ELSE IF Eof(buf, i1) THEN [none EXCEPT !.ret = -1]
        ELSE IF m.st # 0 THEN [none EXCEPT !.ret = m.st]
        ELSE IF s1.st # 0 THEN [withM EXCEPT !.ret = s1.st]
        ELSE IF p.st # 0 THEN [withM EXCEPT !.ret = p.st]
        ELSE IF s2.st # 0 THEN [withP EXCEPT !.ret = s2.st]
        ELSE IF withP.method = << >> \/ withP.path = << >>
             THEN [withP EXCEPT !.ret = -1]
        ELSE IF ver.st # 0 THEN [withP EXCEPT !.ret = ver.st]
        ELSE IF eol # 0 THEN [withP EXCEPT !.ret = eol]
        ELSE IF h.st # 0 THEN [withH EXCEPT !.ret = h.st]
        ELSE [withH EXCEPT !.ret = BLen(SubSeq(buf, 1, h.i - 1))]

phr_parse_request(buf, max_headers, last_len) ==
    IF last_len # 0 /\ is_complete(buf, last_len) # 0
    THEN [ret |-> is_complete(buf, last_len), method |-> << >>,
          path |-> << >>, headers |-> << >>]
    ELSE parse_request(buf, max_headers)

\* ------------------------------------------------------------------------
\* Requests that clients put on the wire
\* ------------------------------------------------------------------------
SP == B(<<" ">>)
CRLF == B(<<"\r", "\n">>)
HTTP11 == B(<<"H", "T", "T", "P", "/", "1", ".", "1">>)
GET == B(<<"G", "E", "T">>)
POST == B(<<"P", "O", "S", "T">>)
OPTIONS == B(<<"O", "P", "T", "I", "O", "N", "S">>)
ContentLength ==
    B(<<"C", "o", "n", "t", "e", "n", "t", "-", "L", "e", "n", "g", "t", "h">>)

HeaderLine(h) == h.name \o B(<<":", " ">>) \o h.value \o CRLF

RECURSIVE HeaderLines(_)
HeaderLines(hs) ==
    IF hs = << >> THEN << >> ELSE HeaderLine(Head(hs)) \o HeaderLines(Tail(hs))

\* the bytes of a request: request line, header lines, blank line, body
Wire(method, target, hs, bodyLen) ==
    Cat(method \o SP \o target \o SP \o HTTP11 \o CRLF
            \o HeaderLines(hs) \o CRLF,
        Fill(bodyLen))

\* ------------------------------------------------------------------------
\* State
\* ------------------------------------------------------------------------
VARIABLES
    running,            \* HttpServer::running
    maxRequestSize,     \* HttpServer::maxRequestSize
    keepAlive,          \* HttpServer::keepAlive
    corsEnabled,        \* HttpServer::corsEnabled
    corsOrigin,         \* HttpServer::corsOrigin
    httpHandlers,       \* exact path -> handler (std::map)
    patternHandlers,    \* sequence of RoutePattern, in registration order
    middlewares,        \* unified middleware list, in registration order
    notFoundHandler,    \* 0 (nullptr) or a handler
    errorHandler,       \* FALSE (nullptr) or TRUE (registered)
    beforeSendHook,     \* FALSE (empty) or TRUE (registered)
    setupCalls,         \* number of registration/configuration calls so far
    connections,        \* the pool: sequence of HttpClientConnection
    sock,               \* the sockets: per client, state and unread bytes
    defaultHeaders,     \* HttpServer::defaultHeaders
    logger,             \* FALSE (nullptr) or TRUE (a log sink is set)
    tickPos,            \* 0: not inside tick(); i > 0: tick()'s loop is at
                        \* connections[i]
    tickStart,          \* tick()'s local 'now': millis() when the loop began
    clock,              \* millis()
    elapses,            \* number of times the clock advanced
    last,               \* what the most recent handleConnection() call did
    connectionInactivityTimeout,  \* HttpServer::connectionInactivityTimeout
    maxConnections,     \* HttpServer::maxConnections
    port,               \* HttpServer::port
    probe               \* a function under test: its inputs and, once it
                        \* has been applied, its result

cfgVars == << running, maxRequestSize, keepAlive, corsEnabled, corsOrigin,
              httpHandlers, patternHandlers, middlewares, notFoundHandler,
              errorHandler, beforeSendHook, defaultHeaders, logger,
              setupCalls, connectionInactivityTimeout, maxConnections, port >>

\* the settings of the pool
poolLimits == << connectionInactivityTimeout, maxConnections >>

vars == << cfgVars, connections, sock, tickPos, tickStart, clock, elapses,
           last, probe >>

\* std::map<String, String>
EmptyMap == [k \in {} |-> << >>]
Put(m, k, v) == [x \in (DOMAIN m) \cup {k} |-> IF x = k THEN v ELSE m[x]]

\* ------------------------------------------------------------------------
\* HubHttpResponse
\* ------------------------------------------------------------------------
\* a response body: what it says and its length in bytes (UTF-8)
Body(t, n) == [text |-> t, bytes |-> n]
NoBody == Body("", 0)

\* HubHttpResponse(): status 200, no headers, empty body
NewResponse == [status |-> 200, headers |-> EmptyMap, body |-> NoBody]

setStatus(res, code) == [res EXCEPT !.status = code]
setBody(res, content) == [res EXCEPT !.body = content]
setHeader(res, name, value) == [res EXCEPT !.headers = Put(@, name, value)]
text(res, content) ==
    setHeader(setBody(res, content), "Content-Type", "text/plain; charset=utf-8")
html(res, content) ==
    setHeader(setBody(res, content), "Content-Type", "text/html; charset=utf-8")

\* ------------------------------------------------------------------------
\* HttpRequest
\* ------------------------------------------------------------------------
\* HttpRequest(): method "GET", path "/", empty body and maps
NewRequest ==
    [method |-> GET, path |-> B(<<"/">>), body |-> << >>,
     headers |-> EmptyMap, headersLower |-> EmptyMap,
     query |-> EmptyMap, params |-> EmptyMap]

\* index of the first run of s at or after i whose character is ch, or 0
RECURSIVE indexOf(_, _, _)
indexOf(s, ch, i) ==
    IF i > Len(s) THEN 0
    ELSE IF s[i].c = ch THEN i ELSE indexOf(s, ch, i + 1)

\* split(str, delim) of string_utils: the pieces between delimiters, as
\* std::getline yields them (no piece after a trailing delimiter)
RECURSIVE split(_, _)
split(s, ch) ==
    IF s = << >> THEN << >>
    ELSE LET idx == indexOf(s, ch, 1)
         IN  IF idx = 0 THEN << s >>
             ELSE << SubSeq(s, 1, idx - 1) >> \o split(SubSeq(s, idx + 1, Len(s)), ch)

\* the query map built from the text after '?'
RECURSIVE QueryOf(_, _)
QueryOf(pairs, acc) ==
    IF pairs = << >> THEN acc
    ELSE LET key_value == split(Head(pairs), "=")
         IN  QueryOf(Tail(pairs),
                 IF Len(key_value) = 2 THEN Put(acc, key_value[1], key_value[2])
                 ELSE IF Len(key_value) = 1 THEN Put(acc, key_value[1], << >>)
                 ELSE acc)

endsWithSlash(s) == s # << >> /\ s[Len(s)].c = "/"

\* Remove trailing slash (except for root)
StripTrailingSlash(s) ==
    IF BLen(s) > 1 /\ endsWithSlash(s) THEN SubSeq(s, 1, Len(s) - 1) ELSE s

RECURSIVE HeaderMaps(_, _)
HeaderMaps(hs, req) ==
    IF hs = << >> THEN req
    ELSE HeaderMaps(Tail(hs),
            [req EXCEPT !.headers = Put(@, Head(hs).name, Head(hs).value),
                        !.headersLower =
                            Put(@, toLowerCase(Head(hs).name), Head(hs).value)])

\* the HttpRequest handleConnection builds from the parser's output
BuildRequest(pr, body) ==
    LET full_path == pr.path
        queryPos == indexOf(full_path, "?", 1)
        rawPath == IF queryPos # 0 THEN SubSeq(full_path, 1, queryPos - 1)
                   ELSE full_path
        query == IF queryPos # 0
                 THEN QueryOf(split(SubSeq(full_path, queryPos + 1,
                                           Len(full_path)), "&"), EmptyMap)
                 ELSE EmptyMap
    IN  HeaderMaps(pr.headers,
            [NewRequest EXCEPT !.method = pr.method,
                               !.body = body,
                               !.path = StripTrailingSlash(rawPath),
                               !.query = query])

\* ------------------------------------------------------------------------
\* Route patterns
\* ------------------------------------------------------------------------
\* the non-empty pieces of a path between '/'
RECURSIVE Segments(_)
Segments(s) ==
    IF s = << >> THEN << >>
    ELSE LET idx == indexOf(s, "/", 1)
             seg == IF idx = 0 THEN s ELSE SubSeq(s, 1, idx - 1)
             rest == IF idx = 0 THEN << >> ELSE SubSeq(s, idx + 1, Len(s))
         IN  (IF seg # << >> THEN << seg >> ELSE << >>) \o Segments(rest)

startsWithColon(seg) == seg # << >> /\ seg[1].c = ":"

\* the RoutePattern on(method, path, handler) builds
MakePattern(method, path, handler) ==
    LET segs == Segments(StripTrailingSlash(path))
    IN  [method |-> method, pattern |-> path, segments |-> segs,
         handler |-> handler,
         hasParams |-> \E i \in 1..Len(segs) : startsWithColon(segs[i])]

\* the segment loop of matchPattern: params are stored as the loop goes
RECURSIVE MatchSegments(_, _, _, _)
MatchSegments(patSegs, pathSegs, i, params) ==
    IF i > Len(patSegs) THEN [matched |-> TRUE, params |-> params]
    ELSE IF startsWithColon(patSegs[i])
         THEN MatchSegments(patSegs, pathSegs, i + 1,
                  Put(params, Tail(patSegs[i]), pathSegs[i]))
    ELSE IF patSegs[i] # pathSegs[i] THEN [matched |-> FALSE, params |-> params]
    ELSE MatchSegments(patSegs, pathSegs, i + 1, params)

\* a matcher that compares the methods byte for byte: the variant C11 is
\* tested against
matchPatternExactMethod(rp, method, path, params) ==
    IF rp.method # method
    THEN [matched |-> FALSE, params |-> params]
    ELSE LET pathSegs == Segments(StripTrailingSlash(path))
         IN  IF Len(pathSegs) # Len(rp.segments)
             THEN [matched |-> FALSE, params |-> params]
             ELSE MatchSegments(rp.segments, pathSegs, 1, params)

\* matchPattern(rp, method, path, req): the result and req.params after it
matchPattern(rp, method, path, params) ==
    IF ~equalsIgnoreCase(rp.method, method)
    THEN [matched |-> FALSE, params |-> params]
    ELSE LET pathSegs == Segments(StripTrailingSlash(path))
         IN  IF Len(pathSegs) # Len(rp.segments)
             THEN [matched |-> FALSE, params |-> params]
             ELSE MatchSegments(rp.segments, pathSegs, 1, params)

\* ------------------------------------------------------------------------
\* Handlers, middleware stages and hooks that applications register
\* ------------------------------------------------------------------------
HandlerNames == << "h1", "h2", "h3", "h4", "h5", "h6", "h7", "h8", "h9" >>

\* a RouteHandler: answers 200 with a body naming the handler. The one that
\* serves "/" also sets headers the server has rules for: Server, a name
\* that may be a default header, Connection, a CORS header, Content-Length
CallHandler(h, req) ==
    LET res == [status |-> 200,
                headers |-> Put(EmptyMap, "Content-Type",
                                "text/plain; charset=utf-8"),
                body |-> Body(HandlerNames[h], 2)]
    IN  IF req.path = B(<<"/">>)
        THEN setHeader(setHeader(setHeader(setHeader(setHeader(res,
                 "Server", "Robot/2"),
                 "X-Frame-Options", "SAMEORIGIN"),
                 "Connection", "upgrade"),
                 "Access-Control-Allow-Origin", "http://other.local"),
                 "Content-Length", "999")
        ELSE res

\* a not-found handler: answers 404 with a body of its own
CallNotFoundHandler(h, req) ==
    [status |-> 404,
     headers |-> Put(EmptyMap, "Content-Type", "text/plain; charset=utf-8"),
     body |-> Body("custom not found", 16)]

\* an ErrorHandler: renders the status it is given as JSON
CallErrorHandler(statusCode, message) ==
    [status |-> statusCode,
     headers |-> Put(EmptyMap, "Content-Type", "application/json"),
     body |-> Body("{error}", 7)]

\* the functions given to use(): what each does to the response, and what a
\* bool-returning one returns.
\*   "log":  adds a header; returns true
\*   "deny": sets 401 Unauthorized; returns false
StageFns == {"log", "deny"}
\* the void functions given to use(MiddlewareHandler): what they return is
\* never looked at
LegacyStageFns == {"deny"}

RunStage(fn, req, res) ==
    IF fn = "log"
    THEN [res |-> setHeader(res, "X-Powered-By", "ESP32"), ret |-> TRUE]
    ELSE [res |-> text(setStatus(res, 401), Body("Unauthorized", 12)),
          ret |-> FALSE]

\* what the before-send hook makes of a response to a request for "/"
HookResponse(res) ==
    setBody(setHeader(setHeader(setStatus(res, 202),
                "Connection", "Upgrade"),
                "Access-Control-Allow-Origin", "null"),
            Body("final", 5))

\* a before-send hook: adds a header; for "/" it also replaces the status,
\* the Connection header, a CORS header and the body
CallBeforeSendHook(req, res) ==
    IF req.path = B(<<"/">>) THEN HookResponse(setHeader(res, "X-Final", "1"))
    ELSE setHeader(res, "X-Final", "1")

\* ------------------------------------------------------------------------
\* HttpServer internals
\* ------------------------------------------------------------------------
ServerHeader == "Hub-Server/1.0"
CorsMethods == "GET, POST, PUT, DELETE, OPTIONS"
CorsHeaders == "Content-Type, Authorization"

\* a guard that never finds memory short: the variant C16 is tested against
alwaysEnoughMemory(freeRam) == TRUE

hasEnoughMemory(freeRam) == freeRam >= MIN_FREE_RAM

applyCORS(response) ==
    IF ~corsEnabled THEN response
    ELSE setHeader(
           setHeader(
             setHeader(
               setHeader(response, "Access-Control-Allow-Origin", corsOrigin),
               "Access-Control-Allow-Methods", CorsMethods),
             "Access-Control-Allow-Headers", CorsHeaders),
           "Access-Control-Max-Age", "86400")

generateErrorResponse(statusCode, message) ==
    IF errorHandler THEN CallErrorHandler(statusCode, message.text)
    ELSE setBody(setHeader(setStatus(NewResponse, statusCode),
                           "Content-Type", "text/plain"), message)

\* a wrapper that would hand on what the legacy stage's body yields: the
\* variant C2 is tested against
LegacyPassThrough(ret) == ret

\* the wrapper use(MiddlewareHandler) builds around a legacy stage
LegacyWrapper(ret) == TRUE

\* one entry of the unified middleware list, invoked
CallMiddleware(mw, req, res) ==
    LET r == RunStage(mw.fn, req, res)
    IN  [res |-> r.res,
         cont |-> IF mw.legacy THEN LegacyWrapper(r.ret) ELSE r.ret]

\* applyMiddlewares from stage i on; ran lists the stages invoked
RECURSIVE applyMiddlewaresFrom(_, _, _, _)
applyMiddlewaresFrom(i, req, res, ran) ==
    IF i > Len(middlewares) THEN [res |-> res, ran |-> ran, halted |-> FALSE]
    ELSE LET r == CallMiddleware(middlewares[i], req, res)
         IN  IF ~r.cont
             THEN [res |-> r.res, ran |-> Append(ran, i), halted |-> TRUE]
             ELSE applyMiddlewaresFrom(i + 1, req, r.res, Append(ran, i))

applyMiddlewares(req, res) == applyMiddlewaresFrom(1, req, res, << >>)

RECURSIVE applyDefaultHeadersFrom(_, _)
applyDefaultHeadersFrom(names, response) ==
    IF names = {} THEN response
    ELSE LET nm == CHOOSE x \in names : TRUE
         IN  applyDefaultHeadersFrom(names \ {nm},
                 IF nm \in DOMAIN response.headers THEN response
                 ELSE setHeader(response, nm, defaultHeaders[nm]))

\* default headers that replace what the response has: the variant C22 is
\* tested against
RECURSIVE applyDefaultHeadersOver(_, _)
applyDefaultHeadersOver(names, response) ==
    IF names = {} THEN response
    ELSE LET nm == CHOOSE x \in names : TRUE
         IN  applyDefaultHeadersOver(names \ {nm},
                 setHeader(response, nm, defaultHeaders[nm]))

applyDefaultHeadersOverwrite(response) ==
    applyDefaultHeadersOver(DOMAIN defaultHeaders, response)

applyDefaultHeaders(response) ==
    applyDefaultHeadersFrom(DOMAIN defaultHeaders, response)

\* what respondToClient puts on the wire: status line, the response's
\* headers, a Content-Length line computed from the body, the body.
\* canWrite: whether the client takes the body's chunks; ok: the value
\* returned (false when a chunk write returns 0 or the write times out)
respondToClient(response, canWrite) ==
    [status |-> response.status, headers |-> response.headers,
     contentLength |-> response.body.bytes, body |-> response.body,
     ok |-> (response.body.bytes > 0 => canWrite)]

\* size_t values are held as 32-bit patterns: a negative int converted to
\* size_t compares above every non-negative value
ULt(a, b) == IF (a >= 0) = (b >= 0) THEN a < b ELSE b < 0
ULe(a, b) == a = b \/ ULt(a, b)

\* String(const char*): the bytes up to the first NUL
RECURSIVE CStr(_)
CStr(s) ==
    IF s = << >> \/ s[1].c = NUL THEN << >> ELSE << s[1] >> \o CStr(Tail(s))

hasNul(s) == \E i \in 1..Len(s) : s[i].c = NUL

\* ------------------------------------------------------------------------
\* handleConnection: the read/parse loop
\* ------------------------------------------------------------------------
\* The loop 'while (parse_result <= 0)' with parse_result a size_t.
\*   sk: the socket's unread bytes      buf, bufsize: the vector and its size
\*   prevbuflen, parse_result: the locals of the same names
\* exit: "parsed" (the loop was left), "413", "400", "read" (read failed)
RECURSIVE ReadLoop(_, _, _, _, _, _)

\* where the loop stops: the locals as they stand
LoopExit(exit, sk, buf, bufsize, parse_result, pr) ==
    [exit |-> exit, sk |-> sk, buf |-> buf, bufsize |-> bufsize,
     parse_result |-> parse_result, pr |-> pr]

\* 'Parse the request' and the branches on its result; buf holds buflen
\* bytes, res is what phr_parse_request returned for them
OnParsed(sk, buf, bufsize, buflen, res) ==
    IF res.ret = -1 THEN LoopExit("400", sk, buf, bufsize, res.ret, res)
    \* prevbuflen = buflen; continue;
    ELSE IF res.ret = -2 THEN ReadLoop(sk, buf, bufsize, buflen, res.ret, res)
    \* break;
    ELSE LoopExit("parsed", sk, buf, bufsize, res.ret, res)

\* client.read() returned read_result bytes: the bounds check, 'Extend
\* buffer if needed', 'Append to buffer', then the parse
OnRead(sk, buf, bufsize, prevbuflen, parse_result, pr, read_result) ==
    IF read_result = 0
    THEN LoopExit("read", sk, buf, bufsize, parse_result, pr)
    ELSE IF read_result + prevbuflen > maxRequestSize
    THEN LoopExit("413", Drop(sk, read_result), buf, bufsize, parse_result, pr)
    ELSE OnParsed(Drop(sk, read_result),
                  Cat(Take(buf, prevbuflen), Take(sk, read_result)),
                  IF read_result + prevbuflen > bufsize
                  THEN Min(read_result + prevbuflen, maxRequestSize)
                  ELSE bufsize,
                  read_result + prevbuflen,
                  phr_parse_request(
                      Cat(Take(buf, prevbuflen), Take(sk, read_result)),
                      MAX_HEADERS, prevbuflen))

ReadLoop(sk, buf, bufsize, prevbuflen, parse_result, pr) ==
    IF ~ULe(parse_result, 0)
    THEN LoopExit("parsed", sk, buf, bufsize, parse_result, pr)
    ELSE IF prevbuflen >= maxRequestSize
    THEN LoopExit("413", sk, buf, bufsize, parse_result, pr)
    ELSE OnRead(sk, buf, bufsize, prevbuflen, parse_result, pr,
                Min(BLen(sk), DEFAULT_BUFFER_SIZE))

NoParse == [ret |-> 0, method |-> << >>, path |-> << >>, headers |-> << >>]

\* 'Extract request body': the C string that starts at buf + parse_result.
\* The vector is zero-filled past buflen; when buflen = bufsize and the
\* bytes hold no NUL the read runs past the vector (stray is what it finds)
ExtractBody(buf, bufsize, parse_result, stray) ==
    LET buflen == BLen(buf)
        rest == Drop(buf, parse_result)
    IN  IF ~ULt(parse_result, buflen) THEN << >>
        ELSE IF hasNul(rest) \/ buflen < bufsize THEN CStr(rest)
        ELSE Cat(rest, stray)

\* ------------------------------------------------------------------------
\* handleConnection: routing
\* ------------------------------------------------------------------------
\* a server without the preflight branch: the variant C3 is tested against
NeverPreflight(req) == FALSE

IsPreflight(req) == corsEnabled /\ req.method = OPTIONS

Invoked(kind, h) == [kind |-> kind, h |-> h]

\* a scan that goes on after a match and keeps the last one: the variant C10
\* is tested against
PatternScanLast(r, req) ==
    LET hits == { q \in r..Len(patternHandlers) :
                    matchPattern(patternHandlers[q], req.method, req.path,
                                 req.params).matched }
    IN  IF hits = {} THEN [idx |-> 0, req |-> req]
        ELSE [idx |-> CHOOSE q \in hits : \A o \in hits : o <= q, req |-> req]

\* 'Attempt param/method route matching first': the scan of
\* patternHandlers from index r; idx = 0 when no pattern matched
RECURSIVE PatternScan(_, _)
PatternScan(r, req) ==
    IF r > Len(patternHandlers) THEN [idx |-> 0, req |-> req]
    ELSE LET m == matchPattern(patternHandlers[r], req.method, req.path,
                               req.params)
             req2 == [req EXCEPT !.params = m.params]
         IN  IF m.matched THEN [idx |-> r, req |-> req2]
             ELSE PatternScan(r + 1, req2)

\* whether a registered handler throws when invoked
Throws(h) == h < 0

\* an invocation whose catch block leaves the response as constructed: the
\* variant C14 is tested against
InvokeHandlerSwallow(h, req) ==
    IF Throws(h) THEN NewResponse ELSE CallHandler(h, req)

\* try { response = handler(req); } catch (...) { response = 500 }
InvokeHandler(h, req) ==
    IF Throws(h)
    THEN generateErrorResponse(500, Body("Internal Server Error", 21))
    ELSE CallHandler(h, req)

\* the built-in welcome page and log tail
WelcomePage == Body("<html>welcome</html>", 20)
LogTail == Body("log tail", 8)

\* pattern routes, exact-path table, built-ins, not-found: the response,
\* the request (params filled in) and the handlers invoked
RouteAfterScan(scan, response) ==
    IF scan.idx # 0
    THEN [response |-> InvokeHandler(patternHandlers[scan.idx].handler,
                                     scan.req),
          req |-> scan.req,
          invoked |-> << Invoked("pattern",
                                 patternHandlers[scan.idx].handler) >>]
    ELSE IF scan.req.path \in DOMAIN httpHandlers
    THEN [response |-> InvokeHandler(httpHandlers[scan.req.path], scan.req),
          req |-> scan.req,
          invoked |-> << Invoked("exact", httpHandlers[scan.req.path]) >>]
    ELSE IF scan.req.path = B(<<"/">>)
    THEN [response |-> html(response, WelcomePage), req |-> scan.req,
          invoked |-> << Invoked("builtin", 0) >>]
    ELSE IF scan.req.path = B(<<"/", "l", "o", "g">>)
    THEN [response |-> IF ~logger
                       THEN generateErrorResponse(404,
                                Body("Logging not enabled", 19))
                       ELSE text(response, LogTail),
          req |-> scan.req,
          invoked |-> << Invoked("builtin", 0) >>]
    ELSE IF notFoundHandler # 0
    THEN [response |-> CallNotFoundHandler(notFoundHandler, scan.req),
          req |-> scan.req,
          invoked |-> << Invoked("notfound", notFoundHandler) >>]
    ELSE [response |-> generateErrorResponse(404, Body("Not Found", 9)),
          req |-> scan.req,
          invoked |-> << Invoked("default404", 0) >>]

\* a router that serves the built-in paths itself before looking at any
\* user route: the variant C12 is tested against
RouteBuiltinFirst(req, response) ==
    IF req.path = B(<<"/">>)
    THEN [response |-> html(response, WelcomePage), req |-> req,
          invoked |-> << Invoked("builtin", 0) >>]
    ELSE RouteAfterScan(PatternScan(1, req), response)

\* a router that looks in the exact-path table before the patterns: the
\* variant C9 is tested against
RouteExactFirst(req, response) ==
    IF req.path \in DOMAIN httpHandlers
    THEN [response |-> InvokeHandler(httpHandlers[req.path], req), req |-> req,
          invoked |-> << Invoked("exact", httpHandlers[req.path]) >>]
    ELSE RouteAfterScan(PatternScan(1, req), response)

\* a router that, after a pattern route's handler, also runs the exact-path
\* handler of the same path: the variant C33 is tested against
RouteBoth(req, response) ==
    LET rt == RouteAfterScan(PatternScan(1, req), response)
    IN  IF rt.invoked[1].kind = "pattern" /\ rt.req.path \in DOMAIN httpHandlers
        THEN [response |-> InvokeHandler(httpHandlers[rt.req.path], rt.req),
              req |-> rt.req,
              invoked |-> Append(rt.invoked,
                                 Invoked("exact", httpHandlers[rt.req.path]))]
        ELSE rt

Route(req, response) == RouteAfterScan(PatternScan(1, req), response)

\* the same steps with the hook called first: the variant C23 is tested
\* against
ComposeHookFirst(req, response) ==
    LET r0 == IF beforeSendHook THEN CallBeforeSendHook(req, response)
              ELSE response
        r1 == IF corsEnabled THEN applyCORS(r0) ELSE r0
        r2 == IF "Server" \notin DOMAIN r1.headers
              THEN setHeader(r1, "Server", ServerHeader) ELSE r1
        r3 == applyDefaultHeaders(r2)
    IN  setHeader(r3, "Connection",
                  IF keepAlive THEN "keep-alive" ELSE "close")

\* the steps between routing and sending: CORS, Server, default headers,
\* Connection, before-send hook
Compose(req, response) ==
    LET r1 == IF corsEnabled THEN applyCORS(response) ELSE response
        r2 == IF "Server" \notin DOMAIN r1.headers
              THEN setHeader(r1, "Server", ServerHeader) ELSE r1
        r3 == applyDefaultHeaders(r2)
        r4 == setHeader(r3, "Connection",
                        IF keepAlive THEN "keep-alive" ELSE "close")
    IN  IF beforeSendHook THEN CallBeforeSendHook(req, r4) ELSE r4

\* ------------------------------------------------------------------------
\* handleConnection
\* ------------------------------------------------------------------------
\* The record of one call:
\*   conn      the connection handled (0: none yet)
\*   ret       the value returned (FALSE: the caller closes the connection)
\*   sk        the socket's unread bytes afterwards
\*   sent      the responses put on the wire, in order
\*   exit      where the call returned
\*   buf       the bytes the call read into its buffer
\*   parse     parse_result (0 when the parser was not run)
\*   built     whether an HttpRequest was built, and req, that request
\*   ran       the middleware stages invoked, halted: one returned false
\*   staged    the response as applyMiddlewares left it
\*   invoked   the route handlers invoked
\*   routed    the response as routing left it
\*   hook      whether the before-send hook was invoked
\*   activity  whether updateActivity() was called
\*   lowMemory whether freeRam() was below MIN_FREE_RAM
\*   idleFor   how long the connection had been idle when tick() reached it
Cycle(ret, sk, sent, exit) ==
    [conn |-> 0, ret |-> ret, sk |-> sk, sent |-> sent, exit |-> exit,
     buf |-> << >>, parse |-> 0, built |-> FALSE, req |-> NewRequest,
     ran |-> << >>, halted |-> FALSE, staged |-> NewResponse,
     invoked |-> << >>, routed |-> NewResponse, hook |-> FALSE,
     activity |-> FALSE,
     lowMemory |-> FALSE, idleFor |-> 0]

\* a 400 branch that answers and keeps the connection: the variant C7 is
\* tested against
OnParseErrorKeep(rd, canWrite) ==
    [Cycle(TRUE, rd.sk,
           << respondToClient(generateErrorResponse(400, Body("Bad Request", 11)),
                              canWrite) >>,
           "400")
       EXCEPT !.buf = rd.buf, !.parse = rd.parse_result]

\* the 400 branch
OnParseError(rd, canWrite) ==
    [Cycle(FALSE, rd.sk,
           << respondToClient(generateErrorResponse(400, Body("Bad Request", 11)),
                              canWrite) >>,
           "400")
       EXCEPT !.buf = rd.buf, !.parse = rd.parse_result]

\* a 413 branch that answers and then goes on to routing, which answers
\* again: the variant C34 is tested against
OnTooLargeThenRoute(rd, canWrite) ==
    [Cycle(FALSE, rd.sk,
           << respondToClient(generateErrorResponse(413,
                                  Body("Payload Too Large", 17)), canWrite),
              respondToClient(Compose(NewRequest,
                                  Route(NewRequest, NewResponse).response),
                              canWrite) >>,
           "413")
       EXCEPT !.buf = rd.buf, !.parse = rd.parse_result]

\* the 413 branches
OnTooLarge(rd, canWrite) ==
    [Cycle(FALSE, rd.sk,
           << respondToClient(generateErrorResponse(413,
                                  Body("Payload Too Large", 17)), canWrite) >>,
           "413")
       EXCEPT !.buf = rd.buf, !.parse = rd.parse_result]

\* the CORS preflight branch
OnPreflight(rd, req, canWrite) ==
    [Cycle(TRUE, rd.sk,
           << respondToClient(applyCORS(setStatus(NewResponse, 204)),
                              canWrite) >>,
           "preflight")
       EXCEPT !.buf = rd.buf, !.parse = rd.parse_result, !.built = TRUE,
              !.req = req]

\* from the route's response to the end: compose, send, updateActivity
OnRouted(rd, mw, rt, canWrite) ==
    [Cycle(TRUE, rd.sk,
           << respondToClient(Compose(rt.req, rt.response), canWrite) >>,
           "handled")
       EXCEPT !.buf = rd.buf, !.parse = rd.parse_result, !.built = TRUE,
              !.req = rt.req, !.ran = mw.ran, !.halted = mw.halted,
              !.staged = mw.res, !.invoked = rt.invoked,
              !.routed = rt.response,
              !.hook = beforeSendHook, !.activity = TRUE]

\* 'Apply middlewares', then routing: mw is what applyMiddlewares left
OnMiddlewares(rd, req, mw, canWrite) ==
    OnRouted(rd, mw, Route(req, mw.res), canWrite)

\* from the built HttpRequest on
OnRequest(rd, req, canWrite) ==
    IF IsPreflight(req) THEN OnPreflight(rd, req, canWrite)
    ELSE OnMiddlewares(rd, req, applyMiddlewares(req, NewResponse), canWrite)

\* from 'Extract request body' to the end
Dispatch(rd, stray, canWrite) ==
    OnRequest(rd, BuildRequest(rd.pr,
                  ExtractBody(rd.buf, rd.bufsize, rd.parse_result, stray)),
              canWrite)

\* after the read/parse loop
AfterLoop(rd, stray, canWrite) ==
    IF rd.exit = "413" THEN OnTooLarge(rd, canWrite)
    ELSE IF rd.exit = "read" THEN Cycle(FALSE, rd.sk, << >>, "read")
    ELSE IF rd.exit = "400" THEN OnParseError(rd, canWrite)
    ELSE IF ULe(rd.parse_result, 0)
    THEN [Cycle(FALSE, rd.sk, << >>, "read") EXCEPT !.parse = rd.parse_result]
    ELSE Dispatch(rd, stray, canWrite)

\* sk: the unread bytes of the connection's socket; freeRam: what freeRam()
\* returns; stray: the bytes found past the buffer if the body is read
\* beyond it; canWrite: whether the client takes what is written to it
handleConnection(sk, freeRam, stray, canWrite) ==
    [ IF ~hasEnoughMemory(freeRam)
      THEN Cycle(FALSE, sk,
                 << respondToClient(generateErrorResponse(503,
                                        Body("Service Unavailable", 19)),
                                    canWrite) >>,
                 "503")
      \* nothing available after the 4 ms wait
      ELSE IF BLen(sk) = 0 THEN Cycle(TRUE, sk, << >>, "idle")
      ELSE AfterLoop(ReadLoop(sk, << >>, DEFAULT_BUFFER_SIZE, 0, 0, NoParse),
                     stray, canWrite)
    EXCEPT !.lowMemory = freeRam < MIN_FREE_RAM ]

\* ------------------------------------------------------------------------
\* Clients
\* ------------------------------------------------------------------------
PathUA == B(<<"/", "u", "/", "a">>)
PathZZ == B(<<"/", "z", "z">>)
PathRoot == B(<<"/">>)
PathLog == B(<<"/", "l", "o", "g">>)

ContentLengthHeader(digits) == [name |-> ContentLength, value |-> B(digits)]

\* The requests clients send. bytes: the request on the wire; cuts: the
\* offsets at which a client may pause between two writes; len: the
\* advertised body length; wellFormed: whether it is a well-formed request
Requests ==
    << [bytes |-> Wire(GET, PathUA, << >>, 0), cuts |-> {2},
        wellFormed |-> TRUE, len |-> 0],
       [bytes |-> Wire(OPTIONS, PathUA, << >>, 0), cuts |-> {},
        wellFormed |-> TRUE, len |-> 0],
       [bytes |-> Wire(POST, PathUA,
                       << ContentLengthHeader(<<"3", "0", "0", "0">>) >>, 3000),
        cuts |-> {44}, wellFormed |-> TRUE, len |-> 3000],
       [bytes |-> GET \o CRLF \o CRLF, cuts |-> {},
        wellFormed |-> FALSE, len |-> 0],
       [bytes |-> Wire(POST, PathUA, << ContentLengthHeader(<<"5">>) >>, 5),
        cuts |-> {41}, wellFormed |-> TRUE, len |-> 5],
       [bytes |-> Wire(GET, PathZZ, << >>, 0), cuts |-> {},
        wellFormed |-> TRUE, len |-> 0],
       [bytes |-> Wire(GET, PathRoot, << >>, 0), cuts |-> {},
        wellFormed |-> TRUE, len |-> 0],
       [bytes |-> Wire(GET, PathLog, << >>, 0), cuts |-> {},
        wellFormed |-> TRUE, len |-> 0],
       [bytes |-> Wire(GET, PathUA \o B(<<"/">>), << >>, 0), cuts |-> {},
        wellFormed |-> TRUE, len |-> 0] >>

\* the requests of the general specification
MainRequests == 1..6

ConnIds == 1..MaxConns

\* a socket nobody has connected yet
FreeSocket ==
    [st |-> "free", req |-> 0, sent |-> 0, writes |-> 0, inq |-> << >>,
     out |-> << >>, stalled |-> FALSE]

\* ------------------------------------------------------------------------
\* Inputs of the registration and configuration calls
\* ------------------------------------------------------------------------
ExactPaths == { PathUA }
PatternRoutes ==
    { [method |-> GET, path |-> B(<<"/", "u", "/", ":", "i", "d">>)],
      [method |-> B(<<"g", "e", "t">>), path |-> PathUA] }
CorsOrigins == { "http://hub.local" }
MaxSizes == { 100, DEFAULT_BUFFER_SIZE, 9000 }
ConfigMaxSizes == { 1024 }
FreeRamValues == { MIN_FREE_RAM - 1, MIN_FREE_RAM }
StrayBytes == { << >>, B(<<"#">>) }
TimeSteps == { TICK_BUDGET_MS + 1, CLIENT_INACTIVITY_TIMEOUT_MS }

\* ------------------------------------------------------------------------
\* Functions applied on their own: the inputs they are given
\* ------------------------------------------------------------------------
NoProbe == [fn |-> "none", done |-> FALSE]

MatchRouteMethods == { GET, POST, B(<<"g", "e", "t">>) }
MatchRoutePaths ==
    { PathUA,
      B(<<"/", "u", "/", ":", "i", "d">>),
      B(<<"/", "u", "/", ":", "i", "d", "/">>),
      B(<<"/", "u", "/", ":", "i", "d", "/", "x">>),
      B(<<"/", ":", "p", "/", "a">>),
      B(<<"/", ":", "p", "/", ":", "i", "d">>) }
MatchMethods == { GET, POST }
MatchPaths ==
    { PathUA, PathZZ,
      B(<<"/">>),
      B(<<"/", "u">>),
      B(<<"/", "u", "/", "a", "/">>),
      B(<<"/", "u", "/", "/", "a">>),
      B(<<"/", "u", "/", "4", "2">>),
      B(<<"/", "u", "/", "4", "2", "/", "x">>),
      B(<<"/", "u", "/", "4", "2", "/", "y">>) }

\* a route as on(method, path, handler) stored it, and a request line
MatchProbes ==
    { [fn |-> "matchPattern", done |-> FALSE,
       rp |-> MakePattern(rm, rpath, 1), method |-> m, path |-> pth,
       result |-> [matched |-> FALSE, params |-> EmptyMap]] :
        rm \in MatchRouteMethods, rpath \in MatchRoutePaths,
        m \in MatchMethods, pth \in MatchPaths }

\* ------------------------------------------------------------------------
\* Initial state: a constructed HttpServer, nothing registered
\* ------------------------------------------------------------------------
Constructed ==
    /\ running = FALSE
    /\ maxRequestSize = MAX_BUFFER_SIZE
    /\ keepAlive = FALSE
    /\ corsEnabled = FALSE
    /\ corsOrigin = "*"
    /\ httpHandlers = EmptyMap
    /\ patternHandlers = << >>
    /\ middlewares = << >>
    /\ notFoundHandler = 0
    /\ errorHandler = FALSE
    /\ beforeSendHook = FALSE
    /\ defaultHeaders = EmptyMap
    /\ logger = FALSE
    /\ setupCalls = 0
    /\ connections = << >>
    /\ tickPos = 0
    /\ tickStart = 0
    /\ clock = 0
    /\ elapses = 0
    /\ last = Cycle(TRUE, << >>, << >>, "none")
    /\ connectionInactivityTimeout = 300000
    /\ maxConnections = DEFAULT_MAX_CONNECTIONS
    /\ port = 80

Init ==
    /\ Constructed
    /\ sock = [c \in ConnIds |-> FreeSocket]
    /\ probe = NoProbe

\* ------------------------------------------------------------------------
\* Registration and configuration (before begin())
\* ------------------------------------------------------------------------
serving == << connections, sock, tickPos, tickStart, clock, elapses, last,
             probe >>

CanSetup == ~running /\ setupCalls < MaxSetupCalls

\* on(path, handler)
OnPath(path) ==
    /\ CanSetup
    /\ httpHandlers' = Put(httpHandlers, path, setupCalls + 1)
    /\ setupCalls' = setupCalls + 1
    /\ UNCHANGED << running, maxRequestSize, keepAlive, corsEnabled, corsOrigin,
                    patternHandlers, middlewares, notFoundHandler, errorHandler,
                    beforeSendHook, defaultHeaders, logger, poolLimits, port, serving >>

\* on(path, handler) with a handler that throws
OnPathThrowing(path) ==
    /\ CanSetup
    /\ httpHandlers' = Put(httpHandlers, path, -(setupCalls + 1))
    /\ setupCalls' = setupCalls + 1
    /\ UNCHANGED << running, maxRequestSize, keepAlive, corsEnabled, corsOrigin,
                    patternHandlers, middlewares, notFoundHandler, errorHandler,
                    beforeSendHook, defaultHeaders, logger, poolLimits, port, serving >>

\* on(method, path, handler) with a handler that throws
OnMethodPathThrowing(method, path) ==
    /\ CanSetup
    /\ patternHandlers' =
           Append(patternHandlers, MakePattern(method, path, -(setupCalls + 1)))
    /\ setupCalls' = setupCalls + 1
    /\ UNCHANGED << running, maxRequestSize, keepAlive, corsEnabled, corsOrigin,
                    httpHandlers, middlewares, notFoundHandler, errorHandler,
                    beforeSendHook, defaultHeaders, logger, poolLimits, port, serving >>

\* on(method, path, handler)
OnMethodPath(method, path) ==
    /\ CanSetup
    /\ patternHandlers' =
           Append(patternHandlers, MakePattern(method, path, setupCalls + 1))
    /\ setupCalls' = setupCalls + 1
    /\ UNCHANGED << running, maxRequestSize, keepAlive, corsEnabled, corsOrigin,
                    httpHandlers, middlewares, notFoundHandler, errorHandler,
                    beforeSendHook, defaultHeaders, logger, poolLimits, port, serving >>

\* use(MiddlewareHandler): the legacy stage is wrapped
UseLegacy(fn) ==
    /\ CanSetup
    /\ middlewares' = Append(middlewares,
                            [legacy |-> TRUE, fn |-> fn, at |-> setupCalls + 1])
    /\ setupCalls' = setupCalls + 1
    /\ UNCHANGED << running, maxRequestSize, keepAlive, corsEnabled, corsOrigin,
                    httpHandlers, patternHandlers, notFoundHandler, errorHandler,
                    beforeSendHook, defaultHeaders, logger, poolLimits, port, serving >>

\* use(MiddlewareHandlerBool)
UseBool(fn) ==
    /\ CanSetup
    /\ middlewares' = Append(middlewares,
                            [legacy |-> FALSE, fn |-> fn, at |-> setupCalls + 1])
    /\ setupCalls' = setupCalls + 1
    /\ UNCHANGED << running, maxRequestSize, keepAlive, corsEnabled, corsOrigin,
                    httpHandlers, patternHandlers, notFoundHandler, errorHandler,
                    beforeSendHook, defaultHeaders, logger, poolLimits, port, serving >>

\* enableCORS(origin)
EnableCORS(origin) ==
    /\ CanSetup
    /\ corsEnabled' = TRUE
    /\ corsOrigin' = origin
    /\ setupCalls' = setupCalls + 1
    /\ UNCHANGED << running, maxRequestSize, keepAlive, httpHandlers,
                    patternHandlers, middlewares, notFoundHandler, errorHandler,
                    beforeSendHook, defaultHeaders, logger, poolLimits, port, serving >>

\* onNotFound(handler)
OnNotFound ==
    /\ CanSetup
    /\ notFoundHandler' = setupCalls + 1
    /\ setupCalls' = setupCalls + 1
    /\ UNCHANGED << running, maxRequestSize, keepAlive, corsEnabled, corsOrigin,
                    httpHandlers, patternHandlers, middlewares, errorHandler,
                    beforeSendHook, defaultHeaders, logger, poolLimits, port, serving >>

\* onError(handler)
OnError ==
    /\ CanSetup
    /\ errorHandler' = TRUE
    /\ setupCalls' = setupCalls + 1
    /\ UNCHANGED << running, maxRequestSize, keepAlive, corsEnabled, corsOrigin,
                    httpHandlers, patternHandlers, middlewares, notFoundHandler,
                    beforeSendHook, defaultHeaders, logger, poolLimits, port, serving >>

\* onBeforeSend(finalizer)
OnBeforeSend ==
    /\ CanSetup
    /\ beforeSendHook' = TRUE
    /\ setupCalls' = setupCalls + 1
    /\ UNCHANGED << running, maxRequestSize, keepAlive, corsEnabled, corsOrigin,
                    httpHandlers, patternHandlers, middlewares, notFoundHandler,
                    errorHandler, defaultHeaders, logger, poolLimits, port, serving >>

\* setMaxRequestSize(maxSize)
SetMaxRequestSize(maxSize) ==
    /\ CanSetup
    /\ maxRequestSize' = IF maxSize > MAX_BUFFER_SIZE THEN MAX_BUFFER_SIZE
                         ELSE IF maxSize < DEFAULT_BUFFER_SIZE
                              THEN DEFAULT_BUFFER_SIZE
                         ELSE maxSize
    /\ setupCalls' = setupCalls + 1
    /\ UNCHANGED << running, keepAlive, corsEnabled, corsOrigin, httpHandlers,
                    patternHandlers, middlewares, notFoundHandler, errorHandler,
                    beforeSendHook, defaultHeaders, logger, poolLimits, port, serving >>

\* setConnectionInactivityTimeout(timeoutMs)
SetConnectionInactivityTimeout(timeoutMs) ==
    /\ CanSetup
    /\ connectionInactivityTimeout' = timeoutMs
    /\ setupCalls' = setupCalls + 1
    /\ UNCHANGED << running, maxRequestSize, keepAlive, corsEnabled, corsOrigin,
                    httpHandlers, patternHandlers, middlewares, notFoundHandler,
                    errorHandler, beforeSendHook, defaultHeaders, logger,
                    maxConnections, port, serving >>

\* setMaxConnections(maxConn)
SetMaxConnections(maxConn) ==
    /\ CanSetup
    /\ maxConnections' = IF maxConn = 0 THEN 1 ELSE maxConn
    /\ setupCalls' = setupCalls + 1
    /\ UNCHANGED << running, maxRequestSize, keepAlive, corsEnabled, corsOrigin,
                    httpHandlers, patternHandlers, middlewares, notFoundHandler,
                    errorHandler, beforeSendHook, defaultHeaders, logger,
                    connectionInactivityTimeout, port, serving >>

\* setKeepAlive(enabled)
SetKeepAlive(enabled) ==
    /\ CanSetup
    /\ keepAlive' = enabled
    /\ setupCalls' = setupCalls + 1
    /\ UNCHANGED << running, maxRequestSize, corsEnabled, corsOrigin,
                    httpHandlers, patternHandlers, middlewares, notFoundHandler,
                    errorHandler, beforeSendHook, defaultHeaders, logger,
                    poolLimits, port, serving >>

\* setLogger(logger)
SetLogger ==
    /\ CanSetup
    /\ logger' = TRUE
    /\ setupCalls' = setupCalls + 1
    /\ UNCHANGED << running, maxRequestSize, keepAlive, corsEnabled, corsOrigin,
                    httpHandlers, patternHandlers, middlewares, notFoundHandler,
                    errorHandler, beforeSendHook, defaultHeaders, poolLimits,
                    port, serving >>

\* setPort(port): refused while the server is running
SetPort(newPort) ==
    IF running THEN UNCHANGED vars
    ELSE /\ setupCalls < MaxSetupCalls
         /\ port' = newPort
         /\ setupCalls' = setupCalls + 1
         /\ UNCHANGED << running, maxRequestSize, keepAlive, corsEnabled,
                         corsOrigin, httpHandlers, patternHandlers, middlewares,
                         notFoundHandler, errorHandler, beforeSendHook,
                         defaultHeaders, logger, poolLimits, serving >>

\* addDefaultHeader(name, value)
AddDefaultHeader(name, value) ==
    /\ CanSetup
    /\ defaultHeaders' = Put(defaultHeaders, name, value)
    /\ setupCalls' = setupCalls + 1
    /\ UNCHANGED << running, maxRequestSize, keepAlive, corsEnabled, corsOrigin,
                    httpHandlers, patternHandlers, middlewares, notFoundHandler,
                    errorHandler, beforeSendHook, logger, poolLimits, port,
                    serving >>

\* struct HttpServerConfig, with its defaults
HttpServerConfig ==
    [port |-> 80, maxRequestSize |-> MAX_BUFFER_SIZE,
     connectionInactivityTimeout |-> 300000,
     maxConnections |-> DEFAULT_MAX_CONNECTIONS, keepAlive |-> FALSE]

\* a begin(config) without the 'already running' test: the variant C27 is
\* tested against
BeginConfigAlways(config) ==
    /\ port' = config.port
    /\ maxRequestSize' = config.maxRequestSize
    /\ connectionInactivityTimeout' = config.connectionInactivityTimeout
    /\ maxConnections' = config.maxConnections
    /\ keepAlive' = config.keepAlive
    /\ running' = TRUE
    /\ UNCHANGED << corsEnabled, corsOrigin, httpHandlers, patternHandlers,
                    middlewares, notFoundHandler, errorHandler, beforeSendHook,
                    defaultHeaders, logger, setupCalls, serving >>

\* begin(config): returns at once when already running
BeginConfig(config) ==
    IF running THEN UNCHANGED vars
    ELSE /\ port' = config.port
         /\ maxRequestSize' = config.maxRequestSize
         /\ connectionInactivityTimeout' = config.connectionInactivityTimeout
         /\ maxConnections' = config.maxConnections
         /\ keepAlive' = config.keepAlive
         /\ running' = TRUE
         /\ UNCHANGED << corsEnabled, corsOrigin, httpHandlers, patternHandlers,
                         middlewares, notFoundHandler, errorHandler,
                         beforeSendHook, defaultHeaders, logger, setupCalls,
                         serving >>

\* begin(): begin(config) with the current settings
Begin ==
    BeginConfig([port |-> port, maxRequestSize |-> maxRequestSize,
                 connectionInactivityTimeout |-> connectionInactivityTimeout,
                 maxConnections |-> maxConnections, keepAlive |-> keepAlive])

\* stop(): the listener is stopped; the pool is left as it is
Stop ==
    /\ running
    /\ tickPos = 0
    /\ running' = FALSE
    /\ UNCHANGED << maxRequestSize, keepAlive, corsEnabled, corsOrigin,
                    httpHandlers, patternHandlers, middlewares, notFoundHandler,
                    errorHandler, beforeSendHook, defaultHeaders, logger,
                    setupCalls, poolLimits, port, serving >>

\* ------------------------------------------------------------------------
\* Clients and the clock
\* ------------------------------------------------------------------------
\* a client connects, having chosen the request it will send
Connect(c, r) ==
    /\ running
    /\ sock[c].st = "free"
    /\ sock' = [sock EXCEPT ![c] = [FreeSocket EXCEPT !.st = "pending", !.req = r]]
    /\ UNCHANGED << cfgVars, connections, tickPos, tickStart, clock, elapses,
                    last, probe >>

\* a client writes the bytes of its request up to a cut or to the end
Send(c) ==
    /\ sock[c].st \in {"pending", "open"}
    /\ LET rq == Requests[sock[c].req]
       IN  \E k \in rq.cuts \cup {BLen(rq.bytes)} :
             /\ k > sock[c].sent
             /\ sock' = [sock EXCEPT
                           ![c].inq = Cat(@, Take(Drop(rq.bytes, sock[c].sent),
                                                  k - sock[c].sent)),
                           ![c].sent = k,
                           ![c].writes = @ + 1]
    /\ UNCHANGED << cfgVars, connections, tickPos, tickStart, clock, elapses,
                    last, probe >>

\* a client that has written its whole request and has been answered reads
\* the answer and starts the same request again on the same connection
SendAgain(c) ==
    /\ sock[c].st = "open"
    /\ sock[c].inq = << >>
    /\ sock[c].out # << >>
    /\ sock[c].sent = BLen(Requests[sock[c].req].bytes)
    /\ sock' = [sock EXCEPT ![c].sent = 0, ![c].writes = 0, ![c].out = << >>]
    /\ UNCHANGED << cfgVars, connections, tickPos, tickStart, clock, elapses,
                    last, probe >>

\* a client stops reading: from now on a write to it returns 0
Stall(c) ==
    /\ sock[c].st \in {"pending", "open"}
    /\ ~sock[c].stalled
    /\ sock' = [sock EXCEPT ![c].stalled = TRUE]
    /\ UNCHANGED << cfgVars, connections, tickPos, tickStart, clock, elapses,
                    last, probe >>

\* a client closes its end
ClientClose(c) ==
    /\ sock[c].st = "open"
    /\ sock' = [sock EXCEPT ![c].st = "peerclosed"]
    /\ UNCHANGED << cfgVars, connections, tickPos, tickStart, clock, elapses,
                    last, probe >>

\* time passes: a slow step inside tick()'s loop, or a silent client
\* between two ticks
Elapse(d) ==
    /\ running
    /\ elapses < MaxElapses
    /\ IF tickPos > 0
       THEN d \in {TICK_BUDGET_MS + 1, CLIENT_INACTIVITY_TIMEOUT_MS \div 3}
       ELSE d > TICK_BUDGET_MS + 1 /\ connections # << >>
    /\ clock' = clock + d
    /\ elapses' = elapses + 1
    /\ UNCHANGED << cfgVars, connections, sock, tickPos, tickStart, last, probe >>

\* between two ticks the time is counted from zero again: millis() values
\* are only ever subtracted from each other, and an idle time at or beyond
\* CLIENT_INACTIVITY_TIMEOUT_MS is kept as the timeout itself
Rebase ==
    /\ tickPos = 0
    /\ clock > 0
    /\ clock' = 0
    /\ tickStart' = 0
    /\ elapses' = 0
    /\ connections' =
          [i \in DOMAIN connections |->
              [connections[i] EXCEPT !.lastActivityMillis =
                  IF clock - @ >= CLIENT_INACTIVITY_TIMEOUT_MS
                  THEN 0 - CLIENT_INACTIVITY_TIMEOUT_MS
                  ELSE @ - clock]]
    /\ UNCHANGED << cfgVars, sock, tickPos, last, probe >>

\* ------------------------------------------------------------------------
\* tick()
\* ------------------------------------------------------------------------
\* HttpClientConnection::connected / isActive
connected(conn) == sock[conn.id].st = "open"
isActive(conn) ==
    (clock - conn.lastActivityMillis) < CLIENT_INACTIVITY_TIMEOUT_MS

Pending == { c \in DOMAIN sock : sock[c].st = "pending" }

\* connections.erase(connections.begin() + i)
Erase(conns, i) == SubSeq(conns, 1, i - 1) \o SubSeq(conns, i + 1, Len(conns))

\* the socket after its HttpClientConnection is destroyed (client.stop())
Stopped(s) == [s EXCEPT !.st = "closed", !.inq = << >>]

\* a loop that moves one place further than it should after an iteration:
\* the variant C35 is tested against
AfterIterationSkip(conns, i) ==
    IF clock - tickStart > TICK_BUDGET_MS \/ i + 1 > Len(conns) THEN 0 ELSE i + 1

\* where the loop stands after an iteration that ran to the budget check
AfterIteration(conns, i) ==
    IF clock - tickStart > TICK_BUDGET_MS \/ i > Len(conns) THEN 0 ELSE i

\* a tick that takes every waiting client at once: the variant C20 is
\* tested against
TickBeginAcceptAll ==
    /\ running
    /\ tickPos = 0
    /\ connections' =
          connections \o
          [k \in 1..Cardinality(Pending) |->
              [id |-> CHOOSE c \in Pending :
                         Cardinality({ o \in Pending : o < c }) = k - 1,
               lastActivityMillis |-> clock]]
    /\ sock' = [c \in DOMAIN sock |->
                  IF c \in Pending THEN [sock[c] EXCEPT !.st = "open"]
                  ELSE sock[c]]
    /\ tickStart' = clock
    /\ tickPos' = IF connections' = << >> THEN 0 ELSE 1
    /\ UNCHANGED << cfgVars, clock, elapses, last, probe >>

\* the start of tick(): accept at most one client, then enter the loop
TickBegin ==
    /\ running
    /\ tickPos = 0
    /\ \E c \in Pending \cup {0} :
         /\ c = 0 => Pending = {}
         /\ connections' =
               IF c = 0 THEN connections
               ELSE Append(connections, [id |-> c, lastActivityMillis |-> clock])
         /\ sock' = IF c = 0 THEN sock ELSE [sock EXCEPT ![c].st = "open"]
    /\ tickStart' = clock
    /\ tickPos' = IF connections' = << >> THEN 0 ELSE 1
    /\ UNCHANGED << cfgVars, clock, elapses, last, probe >>

\* tick() of a server that is not running: 'if (!running) return;'
TickStopped ==
    /\ ~running
    /\ UNCHANGED vars

\* the socket c after handleConnection: bytes consumed, responses written
Served(c, hc) ==
    [sock[c] EXCEPT !.inq = hc.sk,
                    !.out = @ \o [k \in 1..Len(hc.sent) |-> hc.sent[k].status]]

\* the iteration for a connected, active connection: hc is what
\* handleConnection returned
Handled(i, c, hc) ==
    /\ connections' =
          IF ~hc.ret THEN Erase(connections, i)
          ELSE IF hc.activity
          THEN [connections EXCEPT ![i].lastActivityMillis = clock]
          ELSE connections
    /\ sock' = [sock EXCEPT ![c] = IF hc.ret THEN Served(c, hc)
                                   ELSE Stopped(Served(c, hc))]
    /\ tickPos' = AfterIteration(connections', IF hc.ret THEN i + 1 ELSE i)
    /\ last' = IF hc.exit = "idle" THEN last
               ELSE [hc EXCEPT !.conn = c, !.sk = << >>,
                               !.idleFor = clock - connections[i].lastActivityMillis]

\* one iteration of tick()'s loop
TickIter(freeRam, stray) ==
    /\ tickPos > 0
    /\ IF connected(connections[tickPos]) /\ ~isActive(connections[tickPos])
       \* erase and 'continue': the budget check is skipped
       THEN /\ connections' = Erase(connections, tickPos)
            /\ sock' = [sock EXCEPT ![connections[tickPos].id] = Stopped(@)]
            /\ tickPos' = IF tickPos > Len(connections') THEN 0 ELSE tickPos
            /\ last' = last
       ELSE IF connected(connections[tickPos])
       THEN Handled(tickPos, connections[tickPos].id,
                    handleConnection(sock[connections[tickPos].id].inq,
                                     freeRam, stray,
                                     ~sock[connections[tickPos].id].stalled))
       ELSE /\ connections' = Erase(connections, tickPos)
            /\ sock' = [sock EXCEPT ![connections[tickPos].id] = Stopped(@)]
            /\ tickPos' = AfterIteration(connections', tickPos)
            /\ last' = last
    /\ UNCHANGED << cfgVars, tickStart, clock, elapses, probe >>

Next ==
    \/ \E path \in ExactPaths : OnPath(path)
    \/ \E p \in PatternRoutes : OnMethodPath(p.method, p.path)
    \/ \E fn \in LegacyStageFns : UseLegacy(fn)
    \/ \E fn \in StageFns : UseBool(fn)
    \/ \E origin \in CorsOrigins : EnableCORS(origin)
    \/ OnNotFound
    \/ OnError
    \/ OnBeforeSend
    \/ \E maxSize \in MaxSizes : SetMaxRequestSize(maxSize)
    \/ Begin
    \/ \E sz \in ConfigMaxSizes :
          BeginConfig([HttpServerConfig EXCEPT !.maxRequestSize = sz])
    \/ \E c \in ConnIds, r \in MainRequests : Connect(c, r)
    \/ \E c \in ConnIds : Send(c)
    \/ \E c \in ConnIds : ClientClose(c)
    \/ \E d \in TimeSteps : Elapse(d)
    \/ TickBegin
    \/ \E freeRam \in FreeRamValues, stray \in StrayBytes : TickIter(freeRam, stray)

Spec == Init /\ [][Next]_vars

\* ------------------------------------------------------------------------
\* Routing: user routes for the built-in paths, patterns that give up after
\* a capture, handlers that throw, clients that stop reading
\* ------------------------------------------------------------------------
RoutePaths == { PathRoot, PathLog }
ThrowingPaths == { PathUA }
RoutePatterns ==
    { [method |-> GET, path |-> B(<<"/", ":", "p", "/", "b">>)],
      [method |-> GET, path |-> B(<<"/", "u", "/", ":", "i", "d">>)],
      [method |-> GET, path |-> PathLog] }
ThrowingPatterns ==
    { [method |-> GET, path |-> B(<<"/", "u", "/", ":", "i", "d">>)] }
RouteRequests == { 1, 7, 8 }

NextRoute ==
    \/ \E path \in RoutePaths : OnPath(path)
    \/ \E path \in ThrowingPaths : OnPathThrowing(path)
    \/ \E p \in RoutePatterns : OnMethodPath(p.method, p.path)
    \/ \E p \in ThrowingPatterns : OnMethodPathThrowing(p.method, p.path)
    \/ SetLogger
    \/ OnError
    \/ OnNotFound
    \/ Begin
    \/ \E c \in ConnIds, r \in RouteRequests : Connect(c, r)
    \/ \E c \in ConnIds : Send(c)
    \/ \E c \in ConnIds : Stall(c)
    \/ TickBegin
    \/ TickIter(MIN_FREE_RAM, << >>)

SpecRoute == Init /\ [][NextRoute]_vars

\* ------------------------------------------------------------------------
\* The pool: several clients, the pool settings, stop() and begin() again
\* ------------------------------------------------------------------------
PoolConnIds == 1..MaxPoolConns
PoolCaps == { 0, 1 }
PoolTimeouts == { 60000, 600000 }
PoolTimeSteps == { TICK_BUDGET_MS + 1, 60001, CLIENT_INACTIVITY_TIMEOUT_MS }
PoolRequests == { 6 }

InitPool ==
    /\ Constructed
    /\ sock = [c \in PoolConnIds |-> FreeSocket]
    /\ probe = NoProbe

NextPool ==
    \/ \E maxConn \in PoolCaps : SetMaxConnections(maxConn)
    \/ \E timeoutMs \in PoolTimeouts : SetConnectionInactivityTimeout(timeoutMs)
    \/ SetKeepAlive(TRUE)
    \/ Begin
    \/ Stop
    \/ \E c \in PoolConnIds, r \in PoolRequests : Connect(c, r)
    \/ \E c \in PoolConnIds : Send(c)
    \/ \E d \in PoolTimeSteps : Elapse(d)
    \/ TickBegin
    \/ TickIter(MIN_FREE_RAM, << >>)
    \/ TickStopped

SpecPool == InitPool /\ [][NextPool]_vars

\* ------------------------------------------------------------------------
\* Composition: handlers and a hook that set headers the server has rules
\* for, default headers, CORS, keep-alive; a route registered with a
\* trailing slash
\* ------------------------------------------------------------------------
NextCompose ==
    \/ \E path \in {PathRoot, PathUA \o B(<<"/">>)} : OnPath(path)
    \/ \E name \in {"X-Frame-Options", "Server"} : AddDefaultHeader(name, "DENY")
    \/ \E origin \in CorsOrigins : EnableCORS(origin)
    \/ OnBeforeSend
    \/ SetKeepAlive(TRUE)
    \/ Begin
    \/ \E c \in ConnIds, r \in {1, 7, 9} : Connect(c, r)
    \/ \E c \in ConnIds : Send(c)
    \/ TickBegin
    \/ TickIter(MIN_FREE_RAM, << >>)

SpecCompose == Init /\ [][NextCompose]_vars

\* ------------------------------------------------------------------------
\* Isolation: two clients connected at once, each with a request of its
\* own: one for "/", one for a path nobody serves, one with a 3000-byte body
\* ------------------------------------------------------------------------
NextIsolation ==
    \/ Begin
    \/ \E c \in PoolConnIds, r \in {3, 6, 7} : Connect(c, r)
    \/ \E c \in PoolConnIds : Send(c)
    \/ Elapse(TICK_BUDGET_MS + 1)
    \/ TickBegin
    \/ \E stray \in StrayBytes : TickIter(MIN_FREE_RAM, stray)

SpecIsolation == InitPool /\ [][NextIsolation]_vars

\* ------------------------------------------------------------------------
\* tick() called again and again: two keep-alive clients that may send their
\* request again, slow iterations, work between two ticks
\* ------------------------------------------------------------------------
NextFair ==
    \/ Begin
    \/ \E c \in PoolConnIds : Connect(c, 6)
    \/ \E c \in PoolConnIds : Send(c)
    \/ \E c \in PoolConnIds : SendAgain(c)
    \/ Elapse(CLIENT_INACTIVITY_TIMEOUT_MS \div 3)
    \/ Rebase
    \/ TickBegin
    \/ TickIter(MIN_FREE_RAM, << >>)

\* the application's loop() calls tick() for ever, and every call of tick()
\* returns (its handlers terminate, its loop ends)
SpecFair ==
    /\ InitPool
    /\ [][NextFair]_vars
    /\ WF_vars(TickBegin)
    /\ []<>(tickPos = 0)

\* ------------------------------------------------------------------------
\* respondToClient's body loop on its own, one step per iteration.
\*   total_bytes, bytes_written: the locals of the same names
\*   waited: millis() - start        pc: "start", "loop", "done"
\*   ret: the value returned
\* ------------------------------------------------------------------------
WriteProbes ==
    { [fn |-> "respondToClient", pc |-> "start", total_bytes |-> t,
       bytes_written |-> 0, waited |-> 0, ret |-> FALSE] : t \in {0, 1, 1300} }

InitWrite ==
    /\ Constructed
    /\ sock = [c \in ConnIds |-> FreeSocket]
    /\ probe \in WriteProbes

\* status line, headers and Content-Length are written; 'if (total_bytes > 0)'
RespondBegin ==
    /\ probe.fn = "respondToClient"
    /\ probe.pc = "start"
    /\ probe' = IF probe.total_bytes > 0 THEN [probe EXCEPT !.pc = "loop"]
                ELSE [probe EXCEPT !.pc = "done", !.ret = TRUE]
    /\ UNCHANGED << cfgVars, connections, sock, tickPos, tickStart, clock,
                    elapses, last >>

\* an iteration that goes round again when client.write returns 0: the
\* variant C37 is tested against
WriteIterationRetry(written, took) ==
    /\ probe.fn = "respondToClient"
    /\ probe.pc = "loop"
    /\ written <= Min(probe.total_bytes - probe.bytes_written, WRITE_CHUNK_SIZE)
    /\ probe' =
          IF probe.waited > WRITE_TIMEOUT_MS
          THEN [probe EXCEPT !.pc = "done", !.ret = FALSE]
          ELSE IF probe.bytes_written + written < probe.total_bytes
          THEN [probe EXCEPT !.bytes_written = @ + written,
                             !.waited = @ + took]
          ELSE [probe EXCEPT !.bytes_written = @ + written,
                             !.waited = @ + took,
                             !.pc = "done", !.ret = TRUE]
    /\ UNCHANGED << cfgVars, connections, sock, tickPos, tickStart, clock,
                    elapses, last >>

\* one iteration of 'while (bytes_written < total_bytes)'. written: what
\* client.write returns for the chunk; took: the time the iteration takes
WriteIteration(written, took) ==
    /\ probe.fn = "respondToClient"
    /\ probe.pc = "loop"
    /\ written <= Min(probe.total_bytes - probe.bytes_written, WRITE_CHUNK_SIZE)
    /\ probe' =
          IF probe.waited > WRITE_TIMEOUT_MS
          THEN [probe EXCEPT !.pc = "done", !.ret = FALSE]
          ELSE IF written = 0
          THEN [probe EXCEPT !.waited = @ + took, !.pc = "done", !.ret = FALSE]
          ELSE IF probe.bytes_written + written < probe.total_bytes
          THEN [probe EXCEPT !.bytes_written = @ + written,
                             !.waited = @ + took]
          ELSE [probe EXCEPT !.bytes_written = @ + written,
                             !.waited = @ + took,
                             !.pc = "done", !.ret = TRUE]
    /\ UNCHANGED << cfgVars, connections, sock, tickPos, tickStart, clock,
                    elapses, last >>

NextWrite ==
    \/ RespondBegin
    \/ \E written \in {0, 1, WRITE_CHUNK_SIZE}, took \in {1, WRITE_TIMEOUT_MS} :
          WriteIteration(written, took)

\* the call runs on: no step of it waits for anything but the client's
\* write() and delay(1), which return
SpecWrite == InitWrite /\ [][NextWrite]_vars /\ WF_vars(NextWrite)

\* ------------------------------------------------------------------------
\* HubHttpClient. Its strings are byte strings of single characters;
\* positions count from 1, and 0 stands for the -1 of String::indexOf
\* ------------------------------------------------------------------------
\* String::indexOf(const String&, from)
RECURSIVE indexOfStr(_, _, _)
indexOfStr(s, p, from) ==
    IF from + Len(p) - 1 > Len(s) THEN 0
    ELSE IF SubSeq(s, from, from + Len(p) - 1) = p THEN from
    ELSE indexOfStr(s, p, from + 1)

RECURSIVE ltrim(_)
ltrim(s) ==
    IF s # << >> /\ s[1].c \in {" ", "\t"} THEN ltrim(Tail(s)) ELSE s

\* String::trim()
trim(s) == rtrim(ltrim(s))

CookieHeader == B(<<"C", "o", "o", "k", "i", "e">>)
SetCookieHeader == B(<<"S", "e", "t", "-", "C", "o", "o", "k", "i", "e">>)

\* HubHttpClientResponse(): statusCode 0, isSuccess false
NewClientResponse ==
    [statusCode |-> 0, headers |-> EmptyMap, body |-> 0, isSuccess |-> FALSE,
     errorMessage |-> ""]

\* HubHttpClientResponse::getHeader: the value of the first header whose
\* name equals 'name' without regard to case, or the empty string
getHeader(response, name) ==
    LET found == { k \in DOMAIN response.headers : equalsIgnoreCase(k, name) }
    IN  IF found = {} THEN << >>
        ELSE response.headers[CHOOSE k \in found : TRUE]

getPersistentHeader(headers, name) ==
    IF name \in DOMAIN headers THEN headers[name] ELSE << >>

setPersistentHeader(headers, name, value) == Put(headers, name, value)

\* the Set-Cookie value of a response is one that updateCookiesFromResponse
\* stores: it is not empty and has an '='
storesCookie(setCookie) ==
    setCookie # << >> /\ indexOf(setCookie, "=", 1) # 0

\* the value updateCookiesFromResponse passes to setPersistentHeader
\* ("Cookie", ...) when the stored cookies are existingCookies
newCookies(existingCookies, setCookie) ==
    LET equalPos == indexOf(setCookie, "=", 1)
        semicolonPos == indexOf(setCookie, ";", 1)
        cookieName == trim(SubSeq(setCookie, 1, equalPos - 1))
        cookieValue ==
            trim(IF semicolonPos # 0 /\ semicolonPos > equalPos
                 THEN SubSeq(setCookie, equalPos + 1, semicolonPos - 1)
                 ELSE SubSeq(setCookie, equalPos + 1, Len(setCookie)))
        newCookieEntry == cookieName \o B(<<"=">>) \o cookieValue
        cookiePrefix == cookieName \o B(<<"=">>)
        cookieStart == indexOfStr(existingCookies, cookiePrefix, 1)
        semicolonAfter == indexOf(existingCookies, ";", cookieStart)
        cookieEnd == IF semicolonAfter = 0 THEN Len(existingCookies) + 1
                     ELSE semicolonAfter
    IN  IF existingCookies = << >> THEN newCookieEntry
        ELSE IF cookieStart # 0
        THEN SubSeq(existingCookies, 1, cookieStart - 1)
                \o newCookieEntry
                \o SubSeq(existingCookies, cookieEnd, Len(existingCookies))
        ELSE existingCookies \o B(<<";", " ">>) \o newCookieEntry

updateCookiesFromResponse(headers, response) ==
    LET setCookie == getHeader(response, SetCookieHeader)
    IN  IF storesCookie(setCookie)
        THEN setPersistentHeader(headers, CookieHeader,
                 newCookies(getPersistentHeader(headers, CookieHeader),
                            setCookie))
        ELSE headers

\* ------------------------------------------------------------------------
\* The cookie store on its own: responses arrive one after another, each
\* with at most one Set-Cookie header.
\*   persistentHeaders: HubHttpClient::persistentHeaders
\*   jar: for every cookie name received so far, the value received last
\*   responses: how many responses have arrived
\* ------------------------------------------------------------------------
MaxResponses == 4

CookieNames ==
    { B(<<"i", "d">>), B(<<"s", "e", "s", "s", "i", "o", "n", "_", "i", "d">>),
      B(<<"t">>) }
CookieValues == { B(<<"1">>), B(<<"a", "b">>) }
CookieAttrs == { << >>, B(<<";", " ", "P", "a", "t", "h", "=", "/">>) }
SetCookieNames ==
    { SetCookieHeader, B(<<"s", "e", "t", "-", "c", "o", "o", "k", "i", "e">>) }

\* the Set-Cookie value a server sends for a cookie
SetCookieText(name, value, attrs) == name \o B(<<"=">>) \o value \o attrs

InitCookies ==
    /\ Constructed
    /\ sock = [c \in ConnIds |-> FreeSocket]
    /\ probe = [fn |-> "cookies", persistentHeaders |-> EmptyMap,
                jar |-> EmptyMap, responses |-> 0]

\* sendRequest's 'updateCookiesFromResponse(response)' for a response with
\* a Set-Cookie header
ReceiveSetCookie(hname, name, value, attrs) ==
    /\ probe.fn = "cookies"
    /\ probe.responses < MaxResponses
    /\ LET response == [NewClientResponse EXCEPT
                          !.statusCode = 200, !.isSuccess = TRUE,
                          !.headers = Put(EmptyMap, hname,
                                          SetCookieText(name, value, attrs))]
       IN  probe' = [probe EXCEPT
                       !.persistentHeaders =
                           updateCookiesFromResponse(@, response),
                       !.jar = Put(@, name, value),
                       !.responses = @ + 1]
    /\ UNCHANGED << cfgVars, connections, sock, tickPos, tickStart, clock,
                    elapses, last >>

\* the same for a response without one
ReceivePlain ==
    /\ probe.fn = "cookies"
    /\ probe.responses < MaxResponses
    /\ LET response == [NewClientResponse EXCEPT
                          !.statusCode = 200, !.isSuccess = TRUE]
       IN  probe' = [probe EXCEPT
                       !.persistentHeaders =
                           updateCookiesFromResponse(@, response),
                       !.responses = @ + 1]
    /\ UNCHANGED << cfgVars, connections, sock, tickPos, tickStart, clock,
                    elapses, last >>

NextCookies ==
    \/ \E hname \in SetCookieNames, name \in CookieNames,
          value \in CookieValues, attrs \in CookieAttrs :
          ReceiveSetCookie(hname, name, value, attrs)
    \/ ReceivePlain

SpecCookies == InitCookies /\ [][NextCookies]_vars

\* ------------------------------------------------------------------------
\* HubHttpClient: the request it sends
\* ------------------------------------------------------------------------
\* characters in the order of their codes
AsciiOrder ==
    << " ", "-", ".", "/", "0", "1", "2", "3", "4", "5", "6", "7", "8", "9",
       ":", ";", "=", "A", "B", "C", "D", "E", "F", "G", "H", "I", "J", "K",
       "L", "M", "N", "O", "P", "Q", "R", "S", "T", "U", "V", "W", "X", "Y",
       "Z", "_", "a", "b", "c", "d", "e", "f", "g", "h", "i", "j", "k", "l",
       "m", "n", "o", "p", "q", "r", "s", "t", "u", "v", "w", "x", "y", "z" >>

Code(ch) == CHOOSE k \in DOMAIN AsciiOrder : AsciiOrder[k] = ch

\* String::operator<, the order of the keys of a std::map<String, String>
RECURSIVE StrLess(_, _)
StrLess(a, b) ==
    IF b = << >> THEN FALSE
    ELSE IF a = << >> THEN TRUE
    ELSE IF a[1].c = b[1].c THEN StrLess(Tail(a), Tail(b))
    ELSE Code(a[1].c) < Code(b[1].c)

\* 'for (const auto& pair : map)': the pairs with their keys ascending
RECURSIVE MapPairs(_, _)
MapPairs(hm, keys) ==
    IF keys = {} THEN << >>
    ELSE LET k == CHOOSE x \in keys : \A y \in keys \ {x} : StrLess(x, y)
         IN  << [name |-> k, value |-> hm[k]] >> \o MapPairs(hm, keys \ {k})

UserAgentHeader == B(<<"U", "s", "e", "r", "-", "A", "g", "e", "n", "t">>)
HostHeader == B(<<"H", "o", "s", "t">>)
ConnectionHeader == B(<<"C", "o", "n", "n", "e", "c", "t", "i", "o", "n">>)
\* userAgent = "HubRobot/1.0"
DefaultUserAgent ==
    B(<<"H", "u", "b", "R", "o", "b", "o", "t", "/", "1", ".", "0">>)

formatCookieHeader(persistent) == getPersistentHeader(persistent, CookieHeader)

buildRequestHeaders(userAgent, persistent, requestHeaders) ==
    LET cookieHeader == formatCookieHeader(persistent)
    IN  HeaderLine([name |-> UserAgentHeader, value |-> userAgent])
          \o HeaderLines(MapPairs(persistent, DOMAIN persistent))
          \o HeaderLines(MapPairs(requestHeaders, DOMAIN requestHeaders))
          \o (IF Len(cookieHeader) > 0
              THEN HeaderLine([name |-> CookieHeader, value |-> cookieHeader])
              ELSE << >>)

\* the decimal digits of a small number, String(body.length())
DecimalOf(n) ==
    LET d == <<"0", "1", "2", "3", "4", "5", "6", "7", "8", "9">>
    IN  IF n < 10 THEN B(<< d[n + 1] >>)
        ELSE B(<< d[(n \div 10) + 1], d[(n % 10) + 1] >>)

\* the text sendRequest prints: request line, Host, Connection: close,
\* Content-Length when there is a body, the built headers, blank line, body
RequestText(method, host, path, bodyLen, userAgent, persistent, requestHeaders) ==
    Cat(method \o SP \o path \o SP \o HTTP11 \o CRLF
          \o HeaderLine([name |-> HostHeader, value |-> host])
          \o HeaderLine([name |-> ConnectionHeader,
                         value |-> B(<<"c", "l", "o", "s", "e">>)])
          \o (IF bodyLen > 0
              THEN HeaderLine([name |-> ContentLength,
                               value |-> DecimalOf(bodyLen)])
              ELSE << >>)
          \o buildRequestHeaders(userAgent, persistent, requestHeaders)
          \o CRLF,
        Fill(bodyLen))

\* ------------------------------------------------------------------------
\* Building requests: persistent headers are set and removed, cookies are
\* stored from responses, and requests are built with headers of their own.
\*   persistentHeaders, userAgent: the fields of the same names
\*   built: the text of the request built last, with the request headers
\*   (requestHeaders) and the persistent ones (stored) it was built from
\*   calls: how many calls have been made
\* ------------------------------------------------------------------------
MaxClientCalls == 4

AcceptHeader == B(<<"A", "c", "c", "e", "p", "t">>)
AuthorizationHeader ==
    B(<<"A", "u", "t", "h", "o", "r", "i", "z", "a", "t", "i", "o", "n">>)
ClientHeaderNames == { AcceptHeader, AuthorizationHeader }
PersistentValues == { B(<<"p">>) }
RequestValues == { B(<<"r">>) }
RequestHeaderMaps ==
    { EmptyMap } \cup
    { Put(EmptyMap, name, value) :
          name \in ClientHeaderNames, value \in RequestValues }
ClientHost == B(<<"h">>)

InitHeaders ==
    /\ Constructed
    /\ sock = [c \in ConnIds |-> FreeSocket]
    /\ probe = [fn |-> "headers", persistentHeaders |-> EmptyMap,
                userAgent |-> DefaultUserAgent, built |-> << >>,
                requestHeaders |-> EmptyMap, stored |-> EmptyMap,
                calls |-> 0]

SetPersistentHeader(name, value) ==
    /\ probe.fn = "headers"
    /\ probe.calls < MaxClientCalls
    /\ probe' = [probe EXCEPT
                   !.persistentHeaders = setPersistentHeader(@, name, value),
                   !.calls = @ + 1]
    /\ UNCHANGED << cfgVars, connections, sock, tickPos, tickStart, clock,
                    elapses, last >>

\* persistentHeaders.erase(name)
RemovePersistentHeader(name) ==
    /\ probe.fn = "headers"
    /\ probe.calls < MaxClientCalls
    /\ probe' = [probe EXCEPT
                   !.persistentHeaders =
                       [k \in (DOMAIN @) \ {name} |-> @[k]],
                   !.calls = @ + 1]
    /\ UNCHANGED << cfgVars, connections, sock, tickPos, tickStart, clock,
                    elapses, last >>

\* a response with a Set-Cookie header has been received
StoreCookie(name, value) ==
    /\ probe.fn = "headers"
    /\ probe.calls < MaxClientCalls
    /\ LET response == [NewClientResponse EXCEPT
                          !.statusCode = 200, !.isSuccess = TRUE,
                          !.headers = Put(EmptyMap, SetCookieHeader,
                                          SetCookieText(name, value, << >>))]
       IN  probe' = [probe EXCEPT
                       !.persistentHeaders =
                           updateCookiesFromResponse(@, response),
                       !.calls = @ + 1]
    /\ UNCHANGED << cfgVars, connections, sock, tickPos, tickStart, clock,
                    elapses, last >>

\* sendRequest up to the print of the request
BuildClientRequest(method, bodyLen, requestHeaders) ==
    /\ probe.fn = "headers"
    /\ probe.calls < MaxClientCalls
    /\ probe' = [probe EXCEPT
                   !.built = RequestText(method, ClientHost, B(<<"/">>),
                                 bodyLen, probe.userAgent,
                                 probe.persistentHeaders, requestHeaders),
                   !.requestHeaders = requestHeaders,
                   !.stored = probe.persistentHeaders,
                   !.calls = @ + 1]
    /\ UNCHANGED << cfgVars, connections, sock, tickPos, tickStart, clock,
                    elapses, last >>

NextHeaders ==
    \/ \E name \in ClientHeaderNames, value \in PersistentValues :
          SetPersistentHeader(name, value)
    \/ \E name \in ClientHeaderNames : RemovePersistentHeader(name)
    \/ \E name \in { B(<<"i", "d">>) }, value \in CookieValues :
          StoreCookie(name, value)
    \/ \E method \in {GET, POST}, bodyLen \in {0, 12},
          requestHeaders \in RequestHeaderMaps :
          BuildClientRequest(method, bodyLen, requestHeaders)

SpecHeaders == InitHeaders /\ [][NextHeaders]_vars

\* ------------------------------------------------------------------------
\* HubHttpClient: requests in flight. One client object, whose WiFiClient
\* 'client' and persistentHeaders every request uses; each request is a
\* call of sendRequest, made by the caller (synchronous) or by a task of
\* its own (asynchronous). A step is one call on the shared objects, so the
\* behaviours are the interleavings of those calls.
\*   timeout, persistentHeaders: the fields of the same names
\*   fd: the connection the WiFiClient holds, an index of conns, 0 for none
\*   conns: the connections made so far. owner: the request whose connect()
\*     made it; mode: what the server does on it; got: the requests printed
\*     on it; rx: the replies received and not yet read (a reply is named
\*     by the request it answers); served: the server has acted;
\*     peerClosed: the server has closed; clientClosed, closedBy: the
\*     client's end was closed, by which request's call
\*   task[t]: request t. pc: where it is; kind: "sync" or "async";
\*     hasCallback: the callback passed is not empty; ret: what the
\*     asynchronous call returned; contexts, released: TaskContexts
\*     allocated and deleted; response: sendRequest's; existingCookies: the
\*     local of updateCookiesFromResponse; waited: ms spent in
\*     parseResponse's wait loop; callbacks: calls of the callback;
\*     delivered: the response the callback or the caller received
\* ------------------------------------------------------------------------
ClientDefaultTimeout == 10000
ClientTimeouts == { 2000 }
Tasks == {1, 2}
ServerModes == { "reply", "silent", "close" }

IdleTask ==
    [pc |-> "idle", kind |-> "none", hasCallback |-> FALSE, ret |-> FALSE,
     contexts |-> 0, released |-> 0, response |-> NewClientResponse,
     existingCookies |-> << >>, waited |-> 0, callbacks |-> 0,
     delivered |-> NewClientResponse]

InitClient ==
    /\ Constructed
    /\ sock = [c \in ConnIds |-> FreeSocket]
    /\ probe = [fn |-> "client", timeout |-> ClientDefaultTimeout,
                persistentHeaders |-> EmptyMap, fd |-> 0, conns |-> << >>,
                task |-> [t \in Tasks |-> IdleTask]]

ClientUnchanged ==
    UNCHANGED << cfgVars, connections, sock, tickPos, tickStart, clock,
                 elapses, last >>

At(t, pc) == probe.fn = "client" /\ probe.task[t].pc = pc

\* the server's reply to request r: 200, a cookie of its own, r's content
ReplyCookie(r) ==
    IF r = 1 THEN B(<<"t", "=", "1">>) ELSE B(<<"i", "d", "=", "2">>)
ReplyTo(r) ==
    [NewClientResponse EXCEPT
       !.statusCode = 200, !.isSuccess = TRUE, !.body = r,
       !.headers = Put(EmptyMap, SetCookieHeader,
                       ReplyCookie(r) \o B(<<";", " ", "P", "a", "t", "h", "=", "/">>))]

ErrorResponse(message) == [NewClientResponse EXCEPT !.errorMessage = message]

\* WiFiClient::connected() and available() of the shared client
clientAvailable(p) == p.fd # 0 /\ p.conns[p.fd].rx # << >>
clientConnected(p) ==
    p.fd # 0 /\ (p.conns[p.fd].rx # << >> \/ ~p.conns[p.fd].peerClosed)

\* WiFiClient::stop() by request t: the connection held is closed
WifiStop(p, t) ==
    IF p.fd = 0 THEN p
    ELSE [p EXCEPT !.fd = 0,
                   !.conns[p.fd].clientClosed = TRUE,
                   !.conns[p.fd].closedBy = t]

\* setTimeout(timeoutMs)
SetClientTimeout(timeoutMs) ==
    /\ probe.fn = "client"
    /\ \A t \in Tasks : probe.task[t].pc = "idle"
    /\ probe.timeout # timeoutMs
    /\ probe' = [probe EXCEPT !.timeout = timeoutMs]
    /\ ClientUnchanged

\* an asynchronous request that starts its task whatever the callback is:
\* the variant C31 is tested against
RequestAsyncUnchecked(t, hasCallback, created) ==
    /\ At(t, "idle")
    /\ probe' =
          IF ~created
          THEN [probe EXCEPT !.task[t].pc = "refused",
                             !.task[t].kind = "async",
                             !.task[t].hasCallback = hasCallback,
                             !.task[t].contexts = 1,
                             !.task[t].released = 1]
          ELSE [probe EXCEPT !.task[t].pc = "connect",
                             !.task[t].kind = "async",
                             !.task[t].hasCallback = hasCallback,
                             !.task[t].contexts = 1,
                             !.task[t].ret = TRUE]
    /\ ClientUnchanged

\* bool GET/POST/.../request(..., callback, headers). created: xTaskCreate
\* returns pdPASS
RequestAsync(t, hasCallback, created) ==
    /\ At(t, "idle")
    /\ probe' =
          IF ~hasCallback
          THEN [probe EXCEPT !.task[t].pc = "refused",
                             !.task[t].kind = "async"]
          ELSE IF ~created
          THEN [probe EXCEPT !.task[t].pc = "refused",
                             !.task[t].kind = "async",
                             !.task[t].hasCallback = TRUE,
                             !.task[t].contexts = 1,
                             !.task[t].released = 1]
          ELSE [probe EXCEPT !.task[t].pc = "connect",
                             !.task[t].kind = "async",
                             !.task[t].hasCallback = TRUE,
                             !.task[t].contexts = 1,
                             !.task[t].ret = TRUE]
    /\ ClientUnchanged

\* HubHttpClientResponse GET/POST/.../request(...): the caller runs
\* sendRequest itself
RequestSync(t) ==
    /\ At(t, "idle")
    /\ probe' = [probe EXCEPT !.task[t].pc = "connect",
                              !.task[t].kind = "sync"]
    /\ ClientUnchanged

\* activeClient->connect(host, port) and setTimeout. ok: the connection is
\* made; mode: what the server will do on it. A connect() on a WiFiClient
\* that holds a connection replaces it, and the one held is closed
ClientConnect(t, ok, mode) ==
    /\ At(t, "connect")
    /\ probe' =
          IF ~ok
          THEN [probe EXCEPT
                  !.task[t].response = ErrorResponse("Connection failed"),
                  !.task[t].pc = "returned"]
          ELSE [WifiStop(probe, t) EXCEPT
                  !.conns = Append(@,
                               [owner |-> t, mode |-> mode, got |-> << >>,
                                rx |-> << >>, served |-> FALSE,
                                peerClosed |-> FALSE, clientClosed |-> FALSE,
                                closedBy |-> 0]),
                  !.fd = Len(probe.conns) + 1,
                  !.task[t].pc = "print"]
    /\ ClientUnchanged

\* the request is built and printed on the connection the client holds;
\* print returns 0 when it holds none
ClientPrint(t) ==
    /\ At(t, "print")
    /\ probe' =
          IF probe.fd = 0
          THEN [probe EXCEPT
                  !.task[t].response = ErrorResponse("Failed to send request"),
                  !.task[t].pc = "returned"]
          ELSE [probe EXCEPT
                  !.conns[probe.fd].got = Append(@, t),
                  !.task[t].pc = "parse"]
    /\ ClientUnchanged

\* the server acts on connection k once it has a request: it answers the
\* first request and closes ("reply", the request says Connection: close),
\* closes without answering ("close"), or does nothing ("silent")
Serve(k) ==
    /\ probe.fn = "client"
    /\ k \in DOMAIN probe.conns
    /\ probe.conns[k].got # << >>
    /\ ~probe.conns[k].served
    /\ ~probe.conns[k].clientClosed
    /\ probe.conns[k].mode # "silent"
    /\ probe' = [probe EXCEPT
                   !.conns[k].served = TRUE,
                   !.conns[k].peerClosed = TRUE,
                   !.conns[k].rx =
                       IF probe.conns[k].mode = "reply"
                       THEN << Head(probe.conns[k].got) >> ELSE @]
    /\ ClientUnchanged

\* parseResponse: 'if (!client || !client->connected())'
ParseConnected(t) ==
    /\ At(t, "parse")
    /\ probe' =
          IF ~clientConnected(probe)
          THEN [probe EXCEPT
                  !.task[t].response = ErrorResponse("Client not connected"),
                  !.task[t].pc = "cookies"]
          ELSE [probe EXCEPT !.task[t].pc = "wait"]
    /\ ClientUnchanged

\* parseResponse: 'while (client->available() == 0) { delay(1); }'. A step
\* is the test that ends the loop, or the iterations of 'timeout' ms; the
\* time waited is counted up to twice the timeout
ParseWait(t) ==
    /\ At(t, "wait")
    /\ probe' =
          IF clientAvailable(probe)
          THEN [probe EXCEPT !.task[t].pc = "read"]
          ELSE [probe EXCEPT
                  !.task[t].waited = Min(@ + probe.timeout, 2 * probe.timeout)]
    /\ ClientUnchanged

\* parseResponse: status line, headers and body are read from the
\* connection the client holds. With nothing to read, readStringUntil
\* returns the empty string when the Stream timeout has passed
ParseRead(t) ==
    /\ At(t, "read")
    /\ probe' =
          IF clientAvailable(probe)
          THEN [probe EXCEPT
                  !.task[t].response = ReplyTo(Head(probe.conns[probe.fd].rx)),
                  !.conns[probe.fd].rx = Tail(@),
                  !.task[t].pc = "cookies"]
          ELSE [probe EXCEPT
                  !.task[t].response = ErrorResponse("Empty response"),
                  !.task[t].pc = "cookies"]
    /\ ClientUnchanged

\* updateCookiesFromResponse: up to 'existingCookies =
\* getPersistentHeader("Cookie")'
CookiesRead(t) ==
    /\ At(t, "cookies")
    /\ probe' =
          IF storesCookie(getHeader(probe.task[t].response, SetCookieHeader))
          THEN [probe EXCEPT
                  !.task[t].existingCookies =
                      getPersistentHeader(probe.persistentHeaders, CookieHeader),
                  !.task[t].pc = "store"]
          ELSE [probe EXCEPT !.task[t].pc = "stop"]
    /\ ClientUnchanged

\* updateCookiesFromResponse: the setPersistentHeader("Cookie", ...)
CookiesWrite(t) ==
    /\ At(t, "store")
    /\ probe' = [probe EXCEPT
                   !.persistentHeaders =
                       setPersistentHeader(@, CookieHeader,
                           newCookies(probe.task[t].existingCookies,
                               getHeader(probe.task[t].response,
                                         SetCookieHeader))),
                   !.task[t].pc = "stop"]
    /\ ClientUnchanged

\* sendRequest: 'activeClient->stop(); return response;'
ClientStop(t) ==
    /\ At(t, "stop")
    /\ probe' = [WifiStop(probe, t) EXCEPT !.task[t].pc = "returned"]
    /\ ClientUnchanged

\* httpTaskFunction after sendRequest: the callback, when there is one, is
\* called with the response; the context is deleted; the task ends
TaskFinish(t) ==
    /\ At(t, "returned")
    /\ probe.task[t].kind = "async"
    /\ probe' = [probe EXCEPT
                   !.task[t].callbacks =
                       IF probe.task[t].hasCallback THEN @ + 1 ELSE @,
                   !.task[t].delivered =
                       IF probe.task[t].hasCallback
                       THEN probe.task[t].response ELSE @,
                   !.task[t].released = @ + 1,
                   !.task[t].pc = "finished"]
    /\ ClientUnchanged

\* the synchronous call returns sendRequest's response
SyncReturn(t) ==
    /\ At(t, "returned")
    /\ probe.task[t].kind = "sync"
    /\ probe' = [probe EXCEPT
                   !.task[t].delivered = probe.task[t].response,
                   !.task[t].pc = "finished"]
    /\ ClientUnchanged

NextClient ==
    \/ \E timeoutMs \in ClientTimeouts : SetClientTimeout(timeoutMs)
    \/ \E t \in Tasks, hasCallback \in BOOLEAN, created \in BOOLEAN :
          RequestAsync(t, hasCallback, created)
    \/ RequestSync(1)
    \/ \E t \in Tasks, ok \in BOOLEAN, mode \in ServerModes :
          ClientConnect(t, ok, mode)
    \/ \E t \in Tasks : ClientPrint(t)
    \/ \E k \in 1..2 : Serve(k)
    \/ \E t \in Tasks : ParseConnected(t)
    \/ \E t \in Tasks : ParseWait(t)
    \/ \E t \in Tasks : ParseRead(t)
    \/ \E t \in Tasks : CookiesRead(t)
    \/ \E t \in Tasks : CookiesWrite(t)
    \/ \E t \in Tasks : ClientStop(t)
    \/ \E t \in Tasks : TaskFinish(t)
    \/ SyncReturn(1)

\* request t has a step to take: it is in sendRequest, or back from it,
\* and not going round the wait loop with nothing to notice
Runnable(t) ==
    /\ probe.fn = "client"
    /\ \/ probe.task[t].pc \in {"connect", "print", "parse", "read", "cookies",
                                 "store", "stop", "returned"}
       \/ /\ probe.task[t].pc = "wait"
          /\ clientAvailable(probe) \/ probe.task[t].waited < 2 * probe.timeout

\* the server acts on what it received, and every call and task runs on:
\* no request stays for ever at a step it can take
SpecClient ==
    /\ InitClient
    /\ [][NextClient]_vars
    /\ WF_vars(\E k \in 1..2 : Serve(k))
    /\ \A t \in Tasks : []<>(~Runnable(t))

\* ------------------------------------------------------------------------
\* Configuration: setters, begin(), begin(config), setPort() and stop() in
\* any order
\* ------------------------------------------------------------------------
\* the configurations handed to begin(config)
Configs ==
    { [HttpServerConfig EXCEPT !.maxRequestSize = sz] : sz \in {1024, 4096} }
    \cup { [HttpServerConfig EXCEPT !.port = 8080, !.keepAlive = TRUE,
                                    !.maxConnections = 8,
                                    !.connectionInactivityTimeout = 60000] }

NextConfig ==
    \/ \E maxSize \in MaxSizes : SetMaxRequestSize(maxSize)
    \/ \E newPort \in {8080, 8081} : SetPort(newPort)
    \/ \E enabled \in BOOLEAN : SetKeepAlive(enabled)
    \/ \E maxConn \in {0, 2} : SetMaxConnections(maxConn)
    \/ Begin
    \/ \E config \in Configs : BeginConfig(config)
    \/ Stop

SpecConfig == Init /\ [][NextConfig]_vars

\* ------------------------------------------------------------------------
\* matchPattern on its own: a stored route and a request line are drawn,
\* and the function is applied to them
\* ------------------------------------------------------------------------
InitMatch ==
    /\ Constructed
    /\ sock = [c \in ConnIds |-> FreeSocket]
    /\ probe \in MatchProbes

ApplyMatchPattern ==
    /\ probe.fn = "matchPattern"
    /\ ~probe.done
    /\ probe' = [probe EXCEPT
                   !.done = TRUE,
                   !.result = matchPattern(probe.rp, probe.method, probe.path,
                                           EmptyMap)]
    /\ UNCHANGED << cfgVars, connections, sock, tickPos, tickStart, clock,
                    elapses, last >>

NextMatch == ApplyMatchPattern

SpecMatch == InitMatch /\ [][NextMatch]_vars

\* ------------------------------------------------------------------------
\* Properties. 'last' is the most recent handleConnection call that found
\* bytes to read; sock[c].out is every status connection c was answered with
\* ------------------------------------------------------------------------
\* the request the client of connection c chose to send
RequestOf(c) == Requests[sock[c].req]

\* the request behind the most recent call
LastRequest == RequestOf(last.conn)

\* whether a middleware entry, once run, stops the pipeline
Halts(mw) == ~mw.legacy /\ ~RunStage(mw.fn, NewRequest, NewResponse).ret

HasHeader(sent, name, value) ==
    name \in DOMAIN sent.headers /\ sent.headers[name] = value

IsPrefix(p, s) == BLen(p) <= BLen(s) /\ Take(s, BLen(p)) = p
IsProperPrefix(p, s) == BLen(p) < BLen(s) /\ IsPrefix(p, s)

\* the client of connection c has written its whole request in one piece
WroteWhole(c) ==
    sock[c].writes = 1 /\ sock[c].sent = BLen(RequestOf(c).bytes)

\* the Request that results when all the bytes of a request are parsed
\* together: pr is the parser's result for them
RequestFrom(bytes, pr) == BuildRequest(pr, Drop(bytes, pr.ret))
WholeRequest(rq) ==
    RequestFrom(rq.bytes, phr_parse_request(rq.bytes, MAX_HEADERS, 0))

SameRequest(a, b) ==
    /\ a.method = b.method
    /\ a.path = b.path
    /\ a.query = b.query
    /\ a.headers = b.headers
    /\ a.body = b.body

\* the pattern routes that match a request
Matching(req) ==
    { r \in DOMAIN patternHandlers :
        matchPattern(patternHandlers[r], req.method, req.path, EmptyMap).matched }

\* C1: for every request, if a middleware stage registered with use() returns
\* false (halt), no route handler of any kind (pattern, exact path, built-in,
\* not-found) is invoked for it, and the status and body sent are exactly
\* those the halting stage left in the response. (Stated for requests the
\* parser found complete.)
C1_HaltIsFinal ==
    (last.exit = "handled" /\ last.parse > 0 /\ last.halted) =>
        /\ last.invoked = << >>
        /\ last.sent[1].status = last.staged.status
        /\ last.sent[1].body = last.staged.body

\* C2: middleware stages run in the order of the use() calls that registered
\* them, legacy and bool-returning ones interleaved as registered; a legacy
\* stage always continues; once a stage returns false no later stage runs.
C2_StagesInOrder ==
    last.exit = "handled" =>
        LET n == Len(last.ran)
        IN  /\ n <= Len(middlewares)
            /\ \A k \in 1..n : last.ran[k] = k
            /\ \A j, k \in 1..n :
                 j < k => middlewares[last.ran[j]].at < middlewares[last.ran[k]].at
            /\ \A k \in 1..n : k < n => ~Halts(middlewares[k])
            /\ \A k \in 1..n :
                 (middlewares[k].legacy /\ k < Len(middlewares)) => k < n
            /\ n < Len(middlewares) => (n >= 1 /\ Halts(middlewares[n]))
            /\ last.halted = (n >= 1 /\ Halts(middlewares[n]))

\* a request for which the first of two stages halted and the second never ran
C2_HaltSkipsLater ==
    /\ last.exit = "handled"
    /\ Len(middlewares) = 2
    /\ Halts(middlewares[1])
    /\ last.ran = << 1 >>

C4_OversizeGets413 ==
    \A c \in ConnIds :
        (/\ sock[c].req # 0
         /\ WroteWhole(c)
         /\ BLen(RequestOf(c).bytes) > maxRequestSize) =>
            /\ Len(sock[c].out) <= 1
            /\ \A k \in DOMAIN sock[c].out : sock[c].out[k] \in {413, 503}
            /\ sock[c].out # << >> => sock[c].st = "closed"

\* C5: when the bytes read are only a proper prefix of a well-formed request
\* (the parser answers -2), no middleware or handler is invoked and no
\* response is sent for the prefix; the connection stays open.
C5_IncompleteWaits ==
    (/\ last.conn # 0
     /\ last.parse = -2
     /\ LastRequest.wellFormed
     /\ IsProperPrefix(last.buf, LastRequest.bytes)) =>
        /\ ~last.built
        /\ last.ran = << >>
        /\ last.invoked = << >>
        /\ last.sent = << >>
        /\ last.ret

\* C6: for a well-formed request of at most maxRequestSize bytes, however its
\* bytes are split across reads, the Request handed to middleware and
\* handlers (method, path, query, headers, body) is the one that results
\* when all its bytes arrive in one read.
C6_FragmentationInvariance ==
    (/\ last.conn # 0
     /\ last.built
     /\ LastRequest.wellFormed
     /\ BLen(LastRequest.bytes) <= maxRequestSize) =>
        SameRequest(last.req, WholeRequest(LastRequest))

C8_BodyIsContentLength ==
    (/\ last.conn # 0
     /\ last.built
     /\ last.parse > 0
     /\ LastRequest.wellFormed
     /\ IsPrefix(last.buf, LastRequest.bytes)) =>
        last.req.body = Take(Drop(LastRequest.bytes, last.parse), LastRequest.len)

\* C9: pattern routes are consulted before the exact-path table: when a
\* pattern route matches the request its handler is invoked and the
\* exact-path handler of the same path is not; the exact-path handler is
\* invoked only when no pattern route matches.
C9_PatternBeforeExact ==
    last.exit = "handled" =>
        /\ Matching(last.req) # {} =>
              \E r \in Matching(last.req) :
                  last.invoked = << Invoked("pattern", patternHandlers[r].handler) >>
        /\ (Matching(last.req) = {} /\ last.req.path \in DOMAIN httpHandlers) =>
              last.invoked = << Invoked("exact", httpHandlers[last.req.path]) >>
        /\ (\E k \in DOMAIN last.invoked : last.invoked[k].kind = "exact") =>
              Matching(last.req) = {}

\* a request whose path has an exact-path handler and a matching pattern
C9_BothApply ==
    /\ last.exit = "handled"
    /\ Matching(last.req) # {}
    /\ last.req.path \in DOMAIN httpHandlers
    /\ last.invoked # << >>

\* C10: among the pattern routes that match a request, the handler invoked
\* is the one registered earliest, and no later matching pattern's handler
\* runs.
C10_FirstMatchWins ==
    (last.exit = "handled" /\ Matching(last.req) # {}) =>
        LET first == CHOOSE r \in Matching(last.req) :
                         \A q \in Matching(last.req) : r <= q
        IN  /\ last.invoked =
                  << Invoked("pattern", patternHandlers[first].handler) >>
            /\ \A q \in Matching(last.req) :
                  patternHandlers[first].handler <= patternHandlers[q].handler

\* a request that two registered patterns match
C10_TwoMatch ==
    /\ last.exit = "handled"
    /\ Cardinality(Matching(last.req)) = 2
    /\ last.invoked # << >>

\* the segments of a path: its maximal slash-free stretches, left to right
Pieces(path) ==
    LET starts == { i \in 1..Len(path) :
                      path[i].c # "/" /\ (i = 1 \/ path[i - 1].c = "/") }
        endOf(i) == CHOOSE j \in i..Len(path) :
                      /\ \A k \in i..j : path[k].c # "/"
                      /\ (j = Len(path) \/ path[j + 1].c = "/")
        nth(k) == CHOOSE i \in starts :
                      Cardinality({ o \in starts : o < i }) = k - 1
    IN  [k \in 1..Cardinality(starts) |-> SubSeq(path, nth(k), endOf(nth(k)))]

\* C11: matchPattern says yes exactly when the methods are equal ignoring
\* case, the normalized path has as many segments as the route, and every
\* literal segment of the route equals the path's segment at that place; on
\* a match, params holds under each ':name' the path's segment at that place.
C11_MatchIffShape ==
    (probe.fn = "matchPattern" /\ probe.done) =>
        LET segs == Pieces(StripTrailingSlash(probe.path))
            rsegs == probe.rp.segments
            shape ==
                /\ toLowerCase(probe.rp.method) = toLowerCase(probe.method)
                /\ Len(segs) = Len(rsegs)
                /\ \A i \in 1..Len(rsegs) :
                      rsegs[i][1].c # ":" => rsegs[i] = segs[i]
        IN  /\ probe.result.matched <=> shape
            /\ probe.result.matched =>
                  \A i \in 1..Len(rsegs) :
                      rsegs[i][1].c = ":" =>
                          /\ Tail(rsegs[i]) \in DOMAIN probe.result.params
                          /\ probe.result.params[Tail(rsegs[i])] = segs[i]

\* GET /u/42 was matched against the route "get" /u/:id and id is 42
C11_Captured ==
    /\ probe.fn = "matchPattern" /\ probe.done
    /\ probe.rp.method # probe.method
    /\ probe.result.matched
    /\ probe.result.params = Put(EmptyMap, B(<<"i", "d">>), B(<<"4", "2">>))

\* whether connection c is in the pool
InPool(c) == \E i \in DOMAIN connections : connections[i].id = c

\* whether the most recent call ran a built-in endpoint
BuiltinRan == \E k \in DOMAIN last.invoked : last.invoked[k].kind = "builtin"

\* whether a user route (pattern or exact path) applies to a request
UserRoute(req) == Matching(req) # {} \/ req.path \in DOMAIN httpHandlers

\* C12: the built-in '/' and '/log' responses are produced only when no
\* pattern route and no exact route matched the request; a user route for
\* '/' or '/log' overrides the built-in. Without a logger the built-in
\* '/log' answers 404.
C12_BuiltinsOnlyUnrouted ==
    last.exit = "handled" =>
        /\ BuiltinRan <=> (/\ ~UserRoute(last.req)
                           /\ last.req.path \in {PathRoot, PathLog})
        /\ UserRoute(last.req) =>
              /\ last.sent[1].body \notin {WelcomePage, LogTail}
              /\ \E k \in DOMAIN last.invoked :
                    last.invoked[k].kind \in {"pattern", "exact"}
        /\ (BuiltinRan /\ last.req.path = PathRoot) =>
              last.sent[1].status = 200 /\ last.sent[1].body = WelcomePage
        /\ (BuiltinRan /\ last.req.path = PathLog) =>
              IF logger
              THEN last.sent[1].status = 200 /\ last.sent[1].body = LogTail
              ELSE last.sent[1].status = 404

\* GET / was answered by the handler the application registered for "/"
C12_UserRootOverrides ==
    /\ last.exit = "handled"
    /\ last.req.path = PathRoot
    /\ PathRoot \in DOMAIN httpHandlers
    /\ last.invoked = << Invoked("exact", httpHandlers[PathRoot]) >>
    /\ last.sent[1].body = Body(HandlerNames[httpHandlers[PathRoot]], 2)

\* C13: the request's params are written only by the pattern route that
\* matched: when a handler of pattern route P was invoked params holds
\* exactly P's captures, and when no pattern route matched params is empty
\* (a pattern that does not match leaves params as they were).
C13_ParamsFromMatchOnly ==
    last.exit = "handled" =>
        IF Matching(last.req) = {} THEN last.req.params = EmptyMap
        ELSE LET first == CHOOSE r \in Matching(last.req) :
                              \A q \in Matching(last.req) : r <= q
             IN  last.req.params =
                     matchPattern(patternHandlers[first], last.req.method,
                                  last.req.path, EmptyMap).params

\* C14: when the route handler invoked for a request throws, the request is
\* answered 500 by way of generateErrorResponse (the custom error handler
\* when one is registered), the composition steps still run on that
\* response, and the connection is not removed.
C14_ThrowGives500 ==
    (last.exit = "handled" /\ last.invoked # << >> /\ Throws(last.invoked[1].h)) =>
        /\ last.sent =
              << respondToClient(
                     Compose(last.req,
                             generateErrorResponse(500,
                                 Body("Internal Server Error", 21))),
                     last.sent[1].ok) >>
        /\ last.sent[1].status = 500
        /\ HasHeader(last.sent[1], "Server", ServerHeader)
        /\ "Connection" \in DOMAIN last.sent[1].headers
        /\ last.ret
        /\ InPool(last.conn)

\* a throwing handler was invoked while an error handler was registered
C14_HandlerThrew ==
    /\ last.exit = "handled"
    /\ last.invoked # << >>
    /\ Throws(last.invoked[1].h)
    /\ errorHandler
    /\ last.sent[1].body = Body("{error}", 7)

\* C15: when sending a response fails (a chunk write returns 0, or the
\* write times out) the connection is removed from the pool in that tick,
\* and is never kept with its activity time refreshed.
C15_FailedWriteCloses ==
    (last.conn # 0 /\ \E k \in DOMAIN last.sent : ~last.sent[k].ok) =>
        /\ ~last.ret
        /\ ~last.activity
        /\ ~InPool(last.conn)

\* C16: on every cycle, whenever free memory is below MIN_FREE_RAM the
\* cycle reads and parses nothing, attempts exactly one 503 response, and
\* the connection is removed from the pool (and closed) in that tick.
C16_LowMemoryGets503 ==
    (last.conn # 0 /\ last.lowMemory) =>
        /\ last.exit = "503"
        /\ last.buf = << >> /\ last.parse = 0 /\ ~last.built
        /\ last.ran = << >> /\ last.invoked = << >>
        /\ Len(last.sent) = 1 /\ last.sent[1].status = 503
        /\ ~last.ret
        /\ ~InPool(last.conn)
        /\ sock[last.conn].st = "closed"
        /\ sock[last.conn].out[Len(sock[last.conn].out)] = 503

\* memory ran short on a later cycle of a connection that had already been
\* answered once
C16_LowMemoryAfterService ==
    /\ last.conn # 0 /\ last.lowMemory
    /\ Len(sock[last.conn].out) = 2
    /\ sock[last.conn].out[1] = 200
    /\ sock[last.conn].out[2] = 503

\* C17: with keep-alive disabled the connection is removed as soon as its
\* one response has been sent, with keep-alive enabled it stays in the
\* pool; the Connection header sent says which of the two happens.
C17_CloseMeansClosed ==
    last.exit = "handled" =>
        /\ HasHeader(last.sent[1], "Connection", "close") <=> ~last.ret
        /\ HasHeader(last.sent[1], "Connection", "keep-alive") <=> last.ret

\* a step of tick()'s loop: the loop moves on or the pool changes
LoopStep == tickPos > 0 /\ (tickPos' # tickPos \/ connections' # connections)

\* how long connection number i of the pool has been idle
IdleTime(i) == clock - connections[i].lastActivityMillis

\* C18: when tick() reaches a connection that has been idle for longer than
\* the configured inactivity timeout, it removes the connection; a
\* connection with nothing to read that has been idle for less than the
\* configured timeout is left in the pool.
C18_ConfiguredTimeoutRules ==
    [][ \A i \in DOMAIN connections :
          (LoopStep /\ tickPos = i /\ connected(connections[i])) =>
              /\ IdleTime(i) > connectionInactivityTimeout =>
                    ~InPool(connections[i].id)'
              /\ (/\ IdleTime(i) < connectionInactivityTimeout
                  /\ sock[connections[i].id].inq = << >>) =>
                    InPool(connections[i].id)' ]_vars

\* C19: the pool never holds more connections than maxConnections: tick()
\* adds a connection only while the pool is below the cap, and turns the
\* client away otherwise.
C19_AcceptBelowCap ==
    [][ Len(connections') > Len(connections) =>
            Len(connections) < maxConnections ]_vars

\* C20: one call of tick() adds at most one connection to the pool; while
\* the server is not running (before begin(), after stop()) tick() adds
\* none, handles none and removes none.
C20_OneAcceptPerTick ==
    [][ /\ Len(connections') <= Len(connections) + 1
        /\ ~running =>
              /\ connections' = connections
              /\ last' = last
              /\ \A c \in DOMAIN sock :
                    /\ sock'[c].out = sock[c].out
                    /\ sock'[c].st = sock[c].st ]_vars

\* tick() has taken one of two waiting clients and left the other waiting
C20_OneOfTwoAccepted ==
    /\ running
    /\ tickPos = 1
    /\ Len(connections) = 1
    /\ Pending # {}
    /\ sock[connections[1].id].st = "open"

\* the settings begin(config) writes
Settings ==
    << port, maxRequestSize, connectionInactivityTimeout, maxConnections,
       keepAlive >>

\* C26: whatever configuration calls were made (setMaxRequestSize,
\* begin(), begin(config)), the maxRequestSize a running server works with
\* lies between DEFAULT_BUFFER_SIZE and MAX_BUFFER_SIZE.
C26_MaxRequestSizeInRange ==
    running =>
        maxRequestSize >= DEFAULT_BUFFER_SIZE /\ maxRequestSize <= MAX_BUFFER_SIZE

\* C27: while the server is running, begin(), begin(config) and setPort()
\* change nothing: as long as it stays running, the port, maxRequestSize,
\* the inactivity timeout, maxConnections and keepAlive keep their values.
C27_FrozenWhileRunning ==
    [][ (running /\ running') => Settings' = Settings ]_vars

\* a running server whose settings differ from every configuration and port
\* that begin(config) and setPort() are called with
C27_RunningWithOwnSettings ==
    /\ running
    /\ port = 8081
    /\ maxRequestSize = DEFAULT_BUFFER_SIZE
    /\ \A config \in Configs :
          config.port # port /\ config.maxRequestSize # maxRequestSize

\* C28: stop() leaves the pool empty: whenever the server is not running
\* there is no connection in the pool, so none accepted before a stop() is
\* processed after a later begin().
C28_StopEmptiesPool ==
    ~running => connections = << >>

\* C24: with a before-send hook registered, every call of handleConnection
\* that transmits a response (a handler's, a 400, 413 or 503, or the CORS
\* preflight 204) invokes the hook before it.
C24_HookBeforeEveryResponse ==
    [][ (beforeSendHook /\ last' # last /\ last'.sent # << >>)
            => last'.hook ]_vars

C23_HookLastAndFinal ==
    last.exit = "handled" =>
        LET out == [status |-> last.sent[1].status,
                    headers |-> last.sent[1].headers,
                    body |-> last.sent[1].body]
        IN  IF last.hook /\ last.req.path = PathRoot
            THEN HookResponse(out) = out
            ELSE /\ out.headers["Connection"] =
                       (IF keepAlive THEN "keep-alive" ELSE "close")
                 /\ corsEnabled =>
                       out.headers["Access-Control-Allow-Origin"] = corsOrigin
                 /\ "Server" \notin DOMAIN last.routed.headers =>
                       out.headers["Server"] = ServerHeader

\* with CORS enabled, the hook ran for "/" and its status was transmitted
C23_HookOverrode ==
    /\ last.exit = "handled"
    /\ last.hook
    /\ corsEnabled
    /\ last.req.path = PathRoot
    /\ last.sent[1].status = 202
    /\ last.sent[1].headers["Connection"] = "Upgrade"

\* C25: every transmitted response has one Content-Length line, the one
\* computed from the body: its value is the body's length in bytes and the
\* response's own headers hold no Content-Length.
C25_OneContentLength ==
    last.conn # 0 =>
        \A k \in 1..Len(last.sent) :
            /\ last.sent[k].contentLength = last.sent[k].body.bytes
            /\ "Content-Length" \notin DOMAIN last.sent[k].headers

\* C29: an exact route registered with a trailing slash serves the path
\* without it: when no pattern route is registered and some registered
\* exact path, its trailing slash stripped, is the request's path, that
\* route's handler is invoked.
C29_TrailingSlashRegistered ==
    ( /\ last.exit = "handled"
      /\ patternHandlers = << >>
      /\ \E p \in DOMAIN httpHandlers : StripTrailingSlash(p) = last.req.path )
        => \E k \in DOMAIN last.invoked : last.invoked[k].kind = "exact"

\* C30: with two connections open at once, the bytes a call of
\* handleConnection read are bytes of the request its own connection's
\* client sent, and the body of the Request built from them holds bytes of
\* that buffer only.
C30_Isolation ==
    last.conn # 0 =>
        /\ IsPrefix(last.buf, LastRequest.bytes)
        /\ (last.built /\ last.parse > 0) =>
              IsPrefix(last.req.body, Drop(last.buf, last.parse))

\* a live connection with data ready: in the pool, connected, unread bytes
Ready(c) == InPool(c) /\ sock[c].st = "open" /\ sock[c].inq # << >>

\* C21: when tick() is called again and again and every iteration ends, a
\* connection in the pool with data ready does not stay so for ever: its
\* bytes are read, or it is closed.
C21_NoConnectionDeferredForever ==
    \A c \in PoolConnIds : Ready(c) ~> ~Ready(c)

C34_OneResponsePerCycle ==
    last.conn # 0 =>
        /\ Len(last.sent) <= 1
        /\ (last.built \/ last.exit \in {"400", "413", "503"}) =>
              Len(last.sent) = 1
        /\ last.exit = "400" => last.sent[1].status = 400
        /\ last.exit = "413" => last.sent[1].status = 413
        /\ last.exit = "503" => last.sent[1].status = 503
        /\ last.exit = "read" => last.sent = << >>

\* a call that detected an oversized request and sent the 413 alone
C34_Sent413Only ==
    /\ last.conn # 0
    /\ last.exit = "413"
    /\ Len(last.sent) = 1
    /\ last.sent[1].status = 413
    /\ ~last.built

\* the ids of the pool's connections, in pool order
PoolIds(conns) == [k \in DOMAIN conns |-> conns[k].id]

C36_ServedRefreshesActivity ==
    (last.conn # 0 /\ last.built /\ last.ret) => last.activity

\* C37: respondToClient returns: an iteration of its body loop either
\* writes at least one byte or ends the call (zero-byte write, write
\* timeout, last byte written); the bytes written never exceed the body's
\* length; and it returns true only when every byte of the body was written.
C37_WriteTerminates ==
    /\ [](probe.bytes_written <= probe.total_bytes)
    /\ []((probe.pc = "done" /\ probe.ret) =>
            probe.bytes_written = probe.total_bytes)
    /\ [][ probe.pc = "loop" =>
             \/ probe'.bytes_written > probe.bytes_written
             \/ probe'.pc = "done" ]_vars
    /\ <>(probe.pc = "done")

\* a body of 1300 bytes was written in several iterations and the call
\* returned true
C37_WroteAll ==
    /\ probe.pc = "done"
    /\ probe.ret
    /\ probe.total_bytes = 1300
    /\ probe.bytes_written = 1300

\* the entries of a stored cookie string: the pieces between ';', without
\* the blanks around them
CookieEntries(s) ==
    LET pieces == split(s, ";")
    IN  [k \in DOMAIN pieces |-> trim(pieces[k])]

\* C32: the stored cookie string holds exactly one name=value entry for
\* every cookie name received so far, with the value received last (so a
\* Set-Cookie for a stored name changes that cookie's entry and no other).
C32_OneEntryPerCookie ==
    probe.fn = "cookies" =>
        LET entries ==
                CookieEntries(getPersistentHeader(probe.persistentHeaders,
                                                  CookieHeader))
        IN  /\ Len(entries) = Cardinality(DOMAIN probe.jar)
            /\ \A name \in DOMAIN probe.jar :
                  \E k \in DOMAIN entries :
                      entries[k] = name \o B(<<"=">>) \o probe.jar[name]

\* the header lines of a request text, as name and value: the lines after
\* the request line up to the blank line
HeaderLinesOf(request) ==
    LET lines == split(request, "\n")
        head == indexOf([k \in DOMAIN lines |->
                            [c |-> IF lines[k] = B(<<"\r">>) THEN "end" ELSE "line",
                             n |-> 1]], "end", 1)
        colon(k) == indexOf(lines[k], ":", 1)
    IN  [k \in 1..(head - 2) |->
            [name |-> SubSeq(lines[k + 1], 1, colon(k + 1) - 1),
             value |-> trim(SubSeq(lines[k + 1], colon(k + 1) + 1,
                                   Len(lines[k + 1]) - 1))]]

\* C40: in a request built by the client every header name is on one line
\* at most; a stored cookie gives exactly one Cookie line; and a header
\* given with the request is sent with the request's value only.
C40_EachHeaderOnce ==
    (probe.fn = "headers" /\ probe.built # << >>) =>
        LET hs == HeaderLinesOf(probe.built)
            named(name) ==
                { k \in DOMAIN hs : equalsIgnoreCase(hs[k].name, name) }
        IN  /\ \A k \in DOMAIN hs : Cardinality(named(hs[k].name)) = 1
            /\ getPersistentHeader(probe.stored, CookieHeader) # << >> =>
                  Cardinality(named(CookieHeader)) = 1
            /\ \A name \in DOMAIN probe.requestHeaders :
                  \A k \in named(name) :
                      hs[k].value = probe.requestHeaders[name]

C38_RequestCompletes ==
    /\ [](probe.fn = "client" =>
            \A t \in Tasks : probe.task[t].waited <= probe.timeout)
    /\ \A t \in Tasks :
          (probe.fn = "client" /\ probe.task[t].pc = "connect")
            ~> (probe.task[t].pc = "finished")

\* the reply that answers request r arrived in the response of request t
Answered(t) ==
    probe.task[t].pc = "finished" /\ probe.task[t].delivered.statusCode = 200

\* C39: with two requests on one client, a response that a request
\* receives is the reply to that request; a connection is closed only by
\* the request that made it; and when both have finished the stored
\* cookies hold the cookie of every reply that was received.
C39_NoInterference ==
    probe.fn = "client" =>
        /\ \A t \in Tasks : Answered(t) => probe.task[t].delivered.body = t
        /\ \A k \in DOMAIN probe.conns :
              probe.conns[k].closedBy \in {0, probe.conns[k].owner}
        /\ (\A t \in Tasks : probe.task[t].pc = "finished") =>
              \A t \in Tasks :
                  Answered(t) =>
                      \E e \in DOMAIN CookieEntries(getPersistentHeader(
                                   probe.persistentHeaders, CookieHeader)) :
                          CookieEntries(getPersistentHeader(
                              probe.persistentHeaders, CookieHeader))[e]
                            = ReplyCookie(probe.task[t].delivered.body)

====
